---- MODULE Spec2Model ----
(***************************************************************************)
(* DevCLI (src/main.c): the command resolution and execution engine.       *)
(*                                                                         *)
(* run_commands resolves a dotted name against the parsed catalog, runs    *)
(* the declared dependencies recursively, and dispatches the entry's own   *)
(* command; check_availability probes for an installed tool.               *)
(*                                                                         *)
(* C strings are sequences of one-character strings.  A catalog node is a  *)
(* record [type, str, items]: the cJSON type, the valuestring and the      *)
(* ordered children (each a [key, val] pair).  The recursion of            *)
(* run_commands is an explicit stack of frames; every system(), popen()    *)
(* and scanf() is one step whose result is an input.  PATH is the search   *)
(* path in the environment of the process itself, heap the blocks from     *)
(* malloc and strdup that have not been freed.  events is the              *)
(* history of what the process has done (spawns, prompts, log lines,       *)
(* catalog lookups, entries into and returns from run_commands).           *)
(***************************************************************************)
EXTENDS Integers, Sequences, FiniteSets, TLC

VARIABLES shell, admin, argv1, PATH, heap, stack, events, proc

vars == <<shell, admin, argv1, PATH, heap, stack, events, proc>>

(***************************************************************************)
(* Bounds of the model.                                                    *)
(***************************************************************************)
\* exit codes a spawned command may end with: 0 .. MaxExit
MaxExit == 2
\* prompts answered within one replace_placeholder call
MaxPrompts == 2

\* invocations of run_commands that are active at the same time
MaxDepth == 4

\* calls of replace_placeholder in a row, each on what the last one returned
MaxCalls == 2

\* length of the commands wrap_for_shell is called with
MaxLen == 3

(***************************************************************************)
(* Strings.                                                                *)
(***************************************************************************)
\* the NULL char pointer (a valuestring of a node that is no string)
NULLSTR == <<"NULL">>

\* the placeholder "{{path}}"
PathToken == <<"{", "{", "p", "a", "t", "h", "}", "}">>

\* the placeholder "{{name}}" of the documented replacePlaceholder
NameToken == <<"{", "{", "n", "a", "m", "e", "}", "}">>

\* the literal "install"
INSTALL == <<"i", "n", "s", "t", "a", "l", "l">>

\* the literal "all"
ALL == <<"a", "l", "l">>

\* the text put before the command by wrap_for_shell: powershell -Command "
PSPrefix ==
    <<"p", "o", "w", "e", "r", "s", "h", "e", "l", "l", " ",
      "-", "C", "o", "m", "m", "a", "n", "d", " ", "\"">>

Min(a, b) == IF a < b THEN a ELSE b

\* strlen
strlen(s) == Len(s)

\* strstr: the least index at which needle occurs in hay, 0 if there is none
strstr(hay, needle) ==
    LET hits == {p \in 1..(Len(hay) - Len(needle) + 1) :
                    SubSeq(hay, p, p + Len(needle) - 1) = needle}
    IN  IF hits = {} THEN 0 ELSE CHOOSE p \in hits : \A q \in hits : p <= q

\* snprintf(buf, size, ...): the formatted text cut to size - 1 characters
snprintf(size, text) == SubSeq(text, 1, Min(Len(text), size - 1))

\* category.subcommand
Dotted(a, b) == a \o <<".">> \o b

(***************************************************************************)
(* cJSON nodes.                                                            *)
(***************************************************************************)
\* the NULL node pointer
NULL == [type |-> "NULL", str |-> NULLSTR, items |-> <<>>]

JString(s) == [type |-> "string", str |-> s, items |-> <<>>]

JNumber == [type |-> "number", str |-> NULLSTR, items |-> <<>>]

JObject(kvs) == [type |-> "object", str |-> NULLSTR, items |-> kvs]

JArray(elems) ==
    [type |-> "array", str |-> NULLSTR,
     items |-> [n \in 1..Len(elems) |-> [key |-> NULLSTR, val |-> elems[n]]]]

KV(k, v) == [key |-> k, val |-> v]

cJSON_IsObject(item) == item.type = "object"

cJSON_IsString(item) == item.type = "string"

cJSON_IsArray(item) == item.type = "array"

cJSON_GetArraySize(array) == Len(array.items)

\* index counts from 0, as in C
cJSON_GetArrayItem(array, index) ==
    IF index >= 0 /\ index < Len(array.items) THEN array.items[index + 1].val ELSE NULL

\* the first child stored under the key, NULL when there is none
cJSON_GetObjectItem(object, key) ==
    LET hits == {n \in 1..Len(object.items) : object.items[n].key = key}
    IN  IF object.type # "object" \/ hits = {} THEN NULL
        ELSE object.items[CHOOSE n \in hits : \A m \in hits : n <= m].val

(***************************************************************************)
(* The catalog (the tree cJSON_Parse hands to main).                       *)
(***************************************************************************)
Shells == {"Powershell", "CMD", "Linux"}

\* the same variant under each of the three shell identifiers
AllShells(v) ==
    JObject(<<KV(<<"Powershell">>, v), KV(<<"CMD">>, v), KV(<<"Linux">>, v)>>)

\* a variant with a cmd, a dependsOn list and a use text
Variant(cmd, deps) ==
    JObject(<<KV(<<"dependsOn">>, JArray(deps)), KV(<<"cmd">>, cmd),
              KV(<<"use">>, JString(<<"u">>))>>)

\* the cmd of an install entry: a choco/scoop mapping on Windows, a string on Linux
InstallerCmd(choco, scoop) ==
    JObject(<<KV(<<"choco">>, choco), KV(<<"scoop">>, scoop)>>)

\* an install entry: probes is the list of [key, val] pairs of its probe fields
InstallEntry(probes, deps) ==
    LET win == JObject(<<KV(<<"dependsOn">>, JArray(deps)),
                         KV(<<"cmd">>, InstallerCmd(JString(<<"C">>), JString(<<"S">>)))>>
                       \o probes)
        lin == JObject(<<KV(<<"dependsOn">>, JArray(deps)),
                         KV(<<"cmd">>, JString(<<"A">>))>> \o probes)
    IN  JObject(<<KV(<<"Powershell">>, win), KV(<<"CMD">>, win), KV(<<"Linux">>, lin)>>)

\* an install entry whose Windows cmd has a scoop command and no choco command
InstallEntryScoopOnly(probes, deps) ==
    LET win == JObject(<<KV(<<"dependsOn">>, JArray(deps)),
                         KV(<<"cmd">>, JObject(<<KV(<<"scoop">>, JString(<<"S">>))>>))>>
                       \o probes)
        lin == JObject(<<KV(<<"dependsOn">>, JArray(deps)),
                         KV(<<"cmd">>, JString(<<"A">>))>> \o probes)
    IN  JObject(<<KV(<<"Powershell">>, win), KV(<<"CMD">>, win), KV(<<"Linux">>, lin)>>)

\* an install entry whose Windows cmd has a choco command and a scoop entry that
\* is no string
InstallEntryBadScoop(probes, deps) ==
    LET win == JObject(<<KV(<<"dependsOn">>, JArray(deps)),
                         KV(<<"cmd">>, InstallerCmd(JString(<<"C">>), JNumber))>>
                       \o probes)
        lin == JObject(<<KV(<<"dependsOn">>, JArray(deps)),
                         KV(<<"cmd">>, JString(<<"A">>))>> \o probes)
    IN  JObject(<<KV(<<"Powershell">>, win), KV(<<"CMD">>, win), KV(<<"Linux">>, lin)>>)

B == <<"b">>

AtPath == KV(<<"atPath">>, JString(<<"w">>))

AtDrive == KV(<<"atDrive">>, JString(<<"r">>))

AddToPath == KV(<<"addToPath">>, JString(<<"P", "=">> \o PathToken))

BuildCategory ==
    JObject(<<
        \* b.c: a plain command without dependencies
        KV(<<"c">>, AllShells(Variant(JString(<<"g">>), <<>>))),
        \* b.e: a plain command with no dependsOn field at all
        KV(<<"e">>, AllShells(JObject(<<KV(<<"cmd">>, JString(<<"e">>))>>))),
        \* b.d: two dependencies that both resolve
        KV(<<"d">>, AllShells(Variant(JString(<<"d">>),
               <<JString(Dotted(B, <<"c">>)), JString(Dotted(B, <<"e">>))>>))),
        \* b.f: dependencies that fail without a crash (malformed names, unknown
        \* category, unknown subcommand, missing shell variant, an entry that is
        \* no string), then one that resolves
        KV(<<"f">>, AllShells(Variant(JString(<<"f">>),
               <<JString(<<"x">>), JString(<<".", "c">>), JString(<<"c", ".">>),
                 JString(Dotted(<<"q">>, <<"c">>)), JString(Dotted(B, <<"y">>)),
                 JString(Dotted(B, <<"m">>)), JNumber,
                 JString(Dotted(B, <<"c">>))>>))),
        \* b.m: a variant under Powershell only
        KV(<<"m">>, JObject(<<KV(<<"Powershell">>,
               Variant(JString(<<"m">>), <<JString(Dotted(B, <<"c">>))>>))>>)),
        \* b.n: no cmd field
        KV(<<"n">>, AllShells(JObject(<<KV(<<"dependsOn">>,
               JArray(<<JString(Dotted(B, <<"c">>))>>))>>))),
        \* b.o: a cmd that is no string
        KV(<<"o">>, AllShells(Variant(JNumber, <<JString(Dotted(B, <<"c">>))>>))),
        \* b.k, b.l, b.v: a misconfigured dependency before a good one
        KV(<<"k">>, AllShells(Variant(JString(<<"k">>),
               <<JString(Dotted(B, <<"n">>)), JString(Dotted(B, <<"c">>))>>))),
        KV(<<"l">>, AllShells(Variant(JString(<<"l">>),
               <<JString(Dotted(B, <<"o">>)), JString(Dotted(B, <<"c">>))>>))),
        KV(<<"v">>, AllShells(Variant(JString(<<"v">>),
               <<JString(Dotted(INSTALL, <<"h">>)), JString(Dotted(B, <<"c">>))>>))),
        \* b.p: a command with a placeholder
        KV(<<"p">>, AllShells(Variant(JString(<<"c", " ">> \o PathToken), <<>>))),
        \* b.q: a command with the {{name}} placeholder
        KV(<<"q">>, AllShells(Variant(JString(<<"c", " ">> \o NameToken), <<>>))),
        \* b.r: a command with two {{path}} placeholders
        KV(<<"r">>, AllShells(Variant(JString(PathToken \o <<" ">> \o PathToken), <<>>))),
        \* b.w: depends on b.c and then on itself
        KV(<<"w">>, AllShells(Variant(JString(<<"w">>),
               <<JString(Dotted(B, <<"c">>)), JString(Dotted(B, <<"w">>))>>))),
        \* b.i and b.j: each depends on the other
        KV(<<"i">>, AllShells(Variant(JString(<<"i">>), <<JString(Dotted(B, <<"j">>))>>))),
        KV(<<"j">>, AllShells(Variant(JString(<<"j">>), <<JString(Dotted(B, <<"i">>))>>))),
        \* b.u: depends on an install entry
        KV(<<"u">>, AllShells(Variant(JString(<<"u">>),
               <<JString(Dotted(INSTALL, <<"g">>))>>))),
        \* b.s: a subcommand that is no mapping; b.t: a variant that is no mapping
        KV(<<"s">>, JString(<<"s">>)),
        KV(<<"t">>, AllShells(JString(<<"t">>))),
        \* b.(c.): a subcommand key that ends with a dot
        KV(<<"c", ".">>, AllShells(Variant(JString(<<"h">>), <<>>)))
    >>)

InstallCategory ==
    JObject(<<
        KV(<<"g">>, InstallEntry(<<AtPath, AtDrive, AddToPath>>, <<>>)),
        \* install.h: atPath is absent; install.j: atDrive is no string
        KV(<<"h">>, InstallEntry(<<AtDrive, AddToPath>>, <<>>)),
        KV(<<"j">>, InstallEntry(<<AtPath, KV(<<"atDrive">>, JNumber), AddToPath>>, <<>>)),
        \* install.q: no choco command on Windows
        KV(<<"q">>, InstallEntryScoopOnly(<<AtPath, AtDrive, AddToPath>>, <<>>)),
        \* install.y: atDrive is absent, and the entry has a dependency
        KV(<<"y">>, InstallEntry(<<AtPath, AddToPath>>, <<JString(Dotted(B, <<"c">>))>>)),
        \* install.x: a scoop entry that is no string
        KV(<<"x">>, InstallEntryBadScoop(<<AtPath, AtDrive, AddToPath>>, <<>>)),
        \* install.all: only its dependencies run
        KV(ALL, AllShells(Variant(JString(<<"n">>),
               <<JString(Dotted(INSTALL, <<"g">>)), JString(Dotted(B, <<"c">>))>>)))
    >>)

Catalog ==
    JObject(<<KV(B, BuildCategory), KV(INSTALL, InstallCategory),
              \* z: a category that is no mapping
              KV(<<"z">>, JString(<<"z">>))>>)

\* the parsed catalog main hands to run_commands; it is never changed
root == Catalog

\* every category.subcommand pair of the catalog
CatalogNames ==
    UNION {{Dotted(Catalog.items[c].key, Catalog.items[c].val.items[n].key) :
                n \in 1..Len(Catalog.items[c].val.items)} :
           c \in 1..Len(Catalog.items)}

\* names that are malformed, or name nothing in the catalog
OtherNames ==
    {<<>>, <<".">>, <<"x">>, <<".", "c">>, <<"c", ".">>,
     Dotted(<<"q">>, <<"c">>), Dotted(B, <<"y">>), Dotted(<<"z">>, <<"c">>),
     Dotted(B, <<"c", ".", "x">>)}

\* the names a user may type as the argument
Names == CatalogNames \cup OtherNames

\* what the user may type at a prompt
UserValues == {<<"v">>, PathToken, <<"x">> \o PathToken}

(***************************************************************************)
(* Pure parts of the program.                                              *)
(***************************************************************************)
\* run_commands, the loop that finds the first '.': an index from 0, or -1.  The
\* last character is not looked at.
FirstDot(userInput, len) ==
    LET hits == {i \in 0..(len - 2) : userInput[i + 1] = "."}
    IN  IF hits = {} THEN -1 ELSE CHOOSE i \in hits : \A j \in hits : i <= j

\* a slice that ends before a '.' within it
slice_to_dot(userInput, start, last) ==
    LET length == (last + 1) - start
        dots == {n \in 1..length : userInput[start + n] = "."}
        upto == IF dots = {} THEN length
                ELSE (CHOOSE n \in dots : \A m \in dots : n <= m) - 1
    IN  [n \in 1..upto |-> userInput[start + n]]

\* slice: the characters start .. last (indices from 0)
slice(userInput, start, last) ==
    LET length == (last + 1) - start
    IN  [n \in 1..length |-> userInput[start + n]]

\* a wrap that puts nothing around the command under any shell
wrap_for_shell_never(command) == command

\* a buffer with no room for the closing quote
wrap_for_shell_short(command) ==
    IF shell = "Powershell"
    THEN snprintf(strlen(command) + 22, PSPrefix \o command \o <<"\"">>)
    ELSE command

\* wrap_for_shell
wrap_for_shell(command) ==
    IF shell = "Powershell"
    THEN snprintf(strlen(command) + 30, PSPrefix \o command \o <<"\"">>)
    ELSE command

\* how a spawned command may end: it exits with a code or, on the POSIX target,
\* is ended by a signal
Outcomes ==
    [kind : {"exit"}, n : 0..MaxExit]
        \cup (IF shell = "Linux" THEN [kind : {"signal"}, n : {1}] ELSE {})

\* the value system() returns: the exit code on Windows, the wait status on POSIX
SystemStatus(o) ==
    IF shell = "Linux" THEN (IF o.kind = "exit" THEN o.n * 256 ELSE o.n) ELSE o.n

\* a test that lets a '.' at index 0 pass
SyntaxInvalidFromOne(index, len) == index < 0 \/ index >= len - 1

\* run_commands, the test of the place of the '.'
SyntaxInvalid(index, len) == index <= 0 \/ index >= len - 1

\* a test that takes every lookup for a hit
MissingNever(item) == FALSE

\* run_commands, the tests for a lookup that found nothing
Missing(item) == item = NULL

\* a lookup that falls back to the Powershell variant
ShellVariantFallback(fullCommand) ==
    IF cJSON_GetObjectItem(fullCommand, <<shell>>) = NULL
    THEN cJSON_GetObjectItem(fullCommand, <<"Powershell">>)
    ELSE cJSON_GetObjectItem(fullCommand, <<shell>>)

\* run_commands, the variant of the entry under the active shell
ShellVariant(fullCommand) == cJSON_GetObjectItem(fullCommand, <<shell>>)

\* a loop that walks dependsOn from its last entry to its first
DependencyItemReversed(dependency, i) ==
    cJSON_GetArrayItem(dependency, cJSON_GetArraySize(dependency) - 1 - i)

\* run_commands, the entry of dependsOn the loop is at (i counts from 0)
DependencyItem(dependency, i) == cJSON_GetArrayItem(dependency, i)

\* a test that takes a failed probe for a found tool
FoundAtPathInverted(status) == status # 0

\* check_availability, the test of the status of the probe at the search path
FoundAtPath(status) == status = 0

\* run_commands, the test that rejects the cmd field
CmdInvalid(runningCommand, input1) ==
    \/ runningCommand = NULL
    \/ /\ ~cJSON_IsString(runningCommand)
       /\ shell \in {"CMD", "Powershell"}
       /\ input1 # INSTALL

\* a test that does not look at the status of the drive probe
FoundOnDriveUnchecked(status, status1) == status = 1

\* check_availability, the test for "on disk, not on the search path"
FoundOnDrive(status, status1) == status = 1 /\ status1 = 0

\* a test that installs what was found and skips what was not
AlreadyUsableInverted(result) == result # 0

\* run_commands, the test of what check_availability returned
AlreadyUsable(result) == result = 0

\* a choice of installer with the two keys exchanged
InstallerKeySwapped(adminCheck) == IF adminCheck THEN <<"scoop">> ELSE <<"choco">>

\* run_commands, the key of the installer command: choco when elevated
InstallerKey(adminCheck) == IF adminCheck THEN <<"choco">> ELSE <<"scoop">>

\* a choice that falls back to the other installer when the selected one is
\* absent or no string
AdminCommandOrOther(runningCommand, adminCheck) ==
    LET selected == cJSON_GetObjectItem(runningCommand, InstallerKey(adminCheck))
    IN  IF selected = NULL \/ ~cJSON_IsString(selected)
        THEN cJSON_GetObjectItem(runningCommand, InstallerKey(~adminCheck))
        ELSE selected

\* run_commands, adminCommand: the installer entry of cmd under the selected key
AdminCommand(runningCommand, adminCheck) ==
    cJSON_GetObjectItem(runningCommand, InstallerKey(adminCheck))

\* a test that takes every shell for a Windows shell
WindowsShellAlways(sh) == sh \in Shells

\* run_commands, the test for the two Windows shell identifiers
WindowsShell(sh) == sh \in {"CMD", "Powershell"}

\* a test that takes no subcommand for "all"
InstallAllNever(input2) == FALSE

\* run_commands, the test for install.all
InstallAll(input2) == input2 = ALL

\* a test that passes over a dependency whose name is being resolved
ReentersUnlessActive(Item) ==
    /\ cJSON_IsString(Item)
    /\ \A n \in 1..Len(stack) :
          stack[n].fn = "run_commands" => stack[n].userInput # Item.str

\* a test that sends no entry of dependsOn to the recursive call
ReentersNever(Item) == FALSE

\* a test that passes over a dependency that was resolved before in the run
ReentersOnce(Item) ==
    /\ cJSON_IsString(Item)
    /\ \A k \in 1..Len(events) :
          events[k].kind = "enter" => events[k].arg # Item.str

\* run_commands, the test that sends an entry of dependsOn to the recursive call
Reenters(Item) == cJSON_IsString(Item)

\* a test that takes every status for a success
ExecFailedNever(status) == FALSE

\* run_commands, the test of the status of the entry's own command
ExecFailed(status) == status # 0

\* a test that finds a placeholder in every command
HasPlaceholderAlways(command) == TRUE

\* run_commands, the test that sends a cmd to replace_placeholder
HasPlaceholder(command) == strstr(command, PathToken) # 0

\* a loop that asks once before it looks for the token
MoreTokensOrFirst(input_copy, prompts) ==
    strstr(input_copy, PathToken) # 0 \/ prompts = 0

\* replace_placeholder, the loop test: a token is left in the text
MoreTokens(input_copy, prompts) == strstr(input_copy, PathToken) # 0

\* a cancelled call that keeps what was put in so far
CancelledResultKept(input, input_copy) == input_copy

\* a cancelled call that returns an empty string
CancelledResultEmpty(input, input_copy) == <<>>

\* replace_placeholder, what a cancelled call returns: a copy of its argument
CancelledResult(input, input_copy) == input

\* a round that puts the value in place of every token at once
RECURSIVE SubstituteAll(_, _)
SubstituteAll(input_copy, value) ==
    LET pos == strstr(input_copy, PathToken)
    IN  IF pos = 0 THEN input_copy
        ELSE SubSeq(input_copy, 1, pos - 1) \o value
                 \o SubstituteAll(SubSeq(input_copy, pos + Len(PathToken),
                                          Len(input_copy)), value)

\* replace_placeholder, one round: value put in place of the first token
Substitute(input_copy, value) ==
    LET pos == strstr(input_copy, PathToken)
    IN  SubSeq(input_copy, 1, pos - 1) \o value
            \o SubSeq(input_copy, pos + Len(PathToken), Len(input_copy))

\* the lines the drive probe may print (fgets keeps the newline)
DriveLines ==
    {<<"/", "u", "/", "g", "\n">>, <<"/", "g", "\n">>, <<"g", "\n">>, <<"\n">>}

\* strrchr: the greatest index at which c occurs in s, 0 if there is none
strrchr(s, c) ==
    LET hits == {p \in 1..Len(s) : s[p] = c}
    IN  IF hits = {} THEN 0 ELSE CHOOSE p \in hits : \A q \in hits : q <= p

\* strcspn: the length of the part of s before the first c
strcspn(s, c) ==
    LET hits == {p \in 1..Len(s) : s[p] = c}
    IN  IF hits = {} THEN Len(s) ELSE (CHOOSE p \in hits : \A q \in hits : p <= q) - 1

\* check_availability: the line cut at its last '/' and then at its newline
DirectoryBeforeSlashTest(line) ==
    LET lastSlash == strrchr(line, "/")
        cut == IF lastSlash # 0 THEN SubSeq(line, 1, lastSlash - 1) ELSE line
    IN  SubSeq(cut, 1, strcspn(cut, "\n"))

\* check_availability: the directory, a '/' at its end taken off
Directory(line) ==
    LET path == DirectoryBeforeSlashTest(line)
    IN  IF path # <<>> /\ path[Len(path)] = "/"
        THEN SubSeq(path, 1, Len(path) - 1) ELSE path

\* the search path of the process when it is started: one directory, /b.  The
\* program changes its own environment nowhere (it calls no setenv or putenv);
\* a command run by system() changes the environment of its own shell only.
InitialPath == <<<<"/", "b">>>>

(***************************************************************************)
(* Frames and events.                                                      *)
(***************************************************************************)
Frame(fn, userInput, start) ==
    [fn |-> fn, pc |-> "start", userInput |-> userInput,
     input1 |-> <<>>, input2 |-> <<>>,
     i |-> 0, start |-> start,
     foundAtPath |-> NULLSTR, foundAtDrive |-> NULLSTR, addFileToPath |-> NULLSTR,
     status |-> 0, result |-> 0, input_copy |-> <<>>, prompts |-> 0]

Top == stack[Len(stack)]

\* run_commands, the local shellCommand of a frame past the lookups: the node
\* found under the category, the subcommand and the shell
ShellCommandOf(f) ==
    ShellVariant(cJSON_GetObjectItem(cJSON_GetObjectItem(root, f.input1), f.input2))

Front(s) == SubSeq(s, 1, Len(s) - 1)

SetTop(f) == [stack EXCEPT ![Len(stack)] = f]

\* the number of run_commands invocations that are active
Depth(stk) == Cardinality({n \in 1..Len(stk) : stk[n].fn = "run_commands"})

Ev(kind, arg, status) ==
    [kind |-> kind, depth |-> Depth(stack), arg |-> arg, status |-> status]

\* a line of LOG_ERROR
Err(tag) == Ev("error", <<tag>>, 0)

\* system(command) returning status
Spawn(command, status) == Ev("spawn", command, status)

\* cJSON_GetObjectItem on the catalog with a key taken from the name
Lookup(key) == Ev("lookup", key, 0)

\* a block of memory from malloc or strdup that has not been freed: the
\* invocation that allocated it (the place of its entry in the history) and the
\* local variable that holds it
Block(owner, name) == [owner |-> owner, name |-> name]

\* the blocks of the two slices of the invocation on top
Slices == {Block(Top.start, "input1"), Block(Top.start, "input2")}

\* run_commands comes to its end: free(input1), free(input2), and it returns
Return(evs) ==
    /\ stack' = Front(stack)
    /\ events' = events \o evs \o <<Ev("return", Top.userInput, 0)>>
    /\ heap' = heap \ Slices
    /\ UNCHANGED <<shell, admin, argv1, PATH, proc>>

\* a return statement of run_commands before its end, with the blocks
\* allocated since the entry: nothing is freed
ReturnAtOnce(evs, allocated) ==
    /\ stack' = Front(stack)
    /\ events' = events \o evs \o <<Ev("return", Top.userInput, 0)>>
    /\ heap' = heap \cup allocated
    /\ UNCHANGED <<shell, admin, argv1, PATH, proc>>

\* check_availability returns result to run_commands
ReturnResult(evs, result) ==
    /\ stack' = [Front(stack) EXCEPT ![Len(stack) - 1].result = result,
                                     ![Len(stack) - 1].pc = "installed"]
    /\ events' = events \o evs \o <<Ev("result", Top.userInput, result)>>
    /\ UNCHANGED <<shell, admin, argv1, PATH, heap, proc>>

\* the process is ended by a fault
Crash(evs) ==
    /\ proc' = "crashed"
    /\ events' = events \o evs
    /\ UNCHANGED <<shell, admin, argv1, PATH, heap, stack>>

\* the frame on top moves on
Goto(f, evs) ==
    /\ stack' = SetTop(f)
    /\ events' = events \o evs
    /\ UNCHANGED <<shell, admin, argv1, PATH, heap, proc>>

Running(fn, pc) ==
    /\ proc = "running"
    /\ stack # <<>>
    /\ Top.fn = fn
    /\ Top.pc = pc

(***************************************************************************)
(* run_commands.                                                           *)
(***************************************************************************)
\* From the entry to the shell variant: the name is split and looked up.
RunCommandsResolve ==
    /\ Running("run_commands", "start")
    /\ LET f == Top
           len == strlen(f.userInput)
           index == FirstDot(f.userInput, len)
           input1 == slice(f.userInput, 0, index - 1)
           input2 == slice(f.userInput, index + 1, len - 1)
           command == cJSON_GetObjectItem(root, input1)
           fullCommand == cJSON_GetObjectItem(command, input2)
           shellCommand == ShellVariant(fullCommand)
       IN  IF index = -1 THEN ReturnAtOnce(<<Err("format")>>, {})
           ELSE IF SyntaxInvalid(index, len) THEN ReturnAtOnce(<<Err("syntax")>>, {})
           \* from here on input1 and input2 are allocated
           ELSE IF Missing(command)
                THEN ReturnAtOnce(<<Lookup(input1), Err("nocategory")>>, Slices)
           ELSE IF ~cJSON_IsObject(command) THEN Return(<<Lookup(input1)>>)
           ELSE IF Missing(fullCommand)
                THEN ReturnAtOnce(<<Lookup(input1), Lookup(input2), Err("nosubcommand")>>,
                                  Slices)
           ELSE IF ~cJSON_IsObject(fullCommand)
                THEN Return(<<Lookup(input1), Lookup(input2)>>)
           ELSE IF Missing(shellCommand)
                THEN ReturnAtOnce(<<Lookup(input1), Lookup(input2), Err("noshell")>>,
                                  Slices)
           ELSE IF ~cJSON_IsObject(shellCommand)
                THEN Return(<<Lookup(input1), Lookup(input2)>>)
           ELSE /\ stack' = SetTop([f EXCEPT !.pc = "deps", !.input1 = input1,
                                             !.input2 = input2])
                /\ events' = events \o <<Lookup(input1), Lookup(input2)>>
                /\ heap' = heap \cup Slices
                /\ UNCHANGED <<shell, admin, argv1, PATH, proc>>

\* One round of the loop over dependsOn: a string entry is resolved by a
\* recursive call; after the last entry the dispatch begins.
RunCommandsDependency ==
    /\ Running("run_commands", "deps")
    /\ LET f == Top
           dependency == cJSON_GetObjectItem(ShellCommandOf(f), <<"dependsOn">>)
           Item == DependencyItem(dependency, f.i)
       IN  IF cJSON_IsArray(dependency) /\ f.i < cJSON_GetArraySize(dependency)
           THEN IF Reenters(Item)
                THEN /\ Depth(stack) < MaxDepth
                     /\ stack' = SetTop([f EXCEPT !.i = f.i + 1])
                                    \o <<Frame("run_commands", Item.str, Len(events) + 1)>>
                     /\ events' = events \o
                            <<[Ev("enter", Item.str, 0) EXCEPT !.depth = Depth(stack) + 1]>>
                     /\ UNCHANGED <<shell, admin, argv1, PATH, heap, proc>>
                ELSE Goto([f EXCEPT !.i = f.i + 1], <<>>)
           ELSE Goto([f EXCEPT !.pc = "cmd"], <<>>)

\* The cmd field is read and tested and the branch is chosen.  The field is
\* read through its pointer before the pointer is tested: with no cmd the read
\* goes through NULL, which faults or is survived.  The probe fields of an
\* install entry are read the same way.  strstr on a NULL valuestring faults.
RunCommandsCmd ==
    /\ Running("run_commands", "cmd")
    /\ LET f == Top
           runningCommand == cJSON_GetObjectItem(ShellCommandOf(f), <<"cmd">>)
           foundAtPath == cJSON_GetObjectItem(ShellCommandOf(f), <<"atPath">>)
           foundAtDrive == cJSON_GetObjectItem(ShellCommandOf(f), <<"atDrive">>)
           addFileToPath == cJSON_GetObjectItem(ShellCommandOf(f), <<"addToPath">>)
           dispatch == Ev("dispatch", f.userInput, 0)
           call == /\ stack' = SetTop(f) \o
                        <<[Frame("check_availability", f.userInput, f.start)
                             EXCEPT !.foundAtPath = foundAtPath.str,
                                    !.foundAtDrive = foundAtDrive.str,
                                    !.addFileToPath = addFileToPath.str]>>
                   /\ events' = events \o <<dispatch, Ev("call", f.userInput, 0)>>
                   /\ UNCHANGED <<shell, admin, argv1, PATH, heap, proc>>
       IN  IF runningCommand = NULL
           THEN \E ub \in {"fault", "survive"} :
                    IF ub = "fault" THEN Crash(<<dispatch>>)
                    ELSE Return(<<dispatch, Err("nocmd")>>)
           ELSE IF CmdInvalid(runningCommand, f.input1)
                THEN Return(<<dispatch, Err("nocmd")>>)
           ELSE IF f.input1 = INSTALL
                THEN IF ~InstallAll(f.input2)
                     THEN IF NULL \in {foundAtPath, foundAtDrive, addFileToPath}
                          THEN \E ub \in {"fault", "survive"} :
                                   IF ub = "fault" THEN Crash(<<dispatch>>) ELSE call
                          ELSE call
                     ELSE Return(<<dispatch>>)
           ELSE IF runningCommand.str = NULLSTR THEN Crash(<<dispatch>>)
           \* the token is there, so the loop of replace_placeholder is entered
           \* and input_copy, the block it works on and returns, is allocated
           ELSE IF HasPlaceholder(runningCommand.str)
                THEN /\ stack' = SetTop([f EXCEPT !.pc = "expand",
                                                  !.input_copy = runningCommand.str])
                     /\ events' = events \o <<dispatch>>
                     /\ heap' = heap \cup {Block(f.start, "input_copy")}
                     /\ UNCHANGED <<shell, admin, argv1, PATH, proc>>
           ELSE Goto([f EXCEPT !.pc = "run", !.input_copy = runningCommand.str],
                     <<dispatch>>)

\* The install branch after check_availability has returned.
RunCommandsInstall ==
    /\ Running("run_commands", "installed")
    /\ LET f == Top
           runningCommand == cJSON_GetObjectItem(ShellCommandOf(f), <<"cmd">>)
           adminCommand == AdminCommand(runningCommand, admin)
       IN  IF AlreadyUsable(f.result) THEN Return(<<>>)
           ELSE IF WindowsShell(shell)
                THEN IF adminCommand = NULL \/ ~cJSON_IsString(adminCommand)
                     THEN Return(<<Ev("is_admin", <<>>, 0), Err("nocmd")>>)
                     ELSE \E o \in Outcomes :
                            LET status == SystemStatus(o)
                            IN  Return(<<Ev("is_admin", <<>>, 0),
                                         Spawn(wrap_for_shell(adminCommand.str), status)>>
                                       \o IF ExecFailed(status) THEN <<Err("execfail")>> ELSE <<>>)
                \* system(NULL) starts no command and reports that a shell exists
                ELSE IF runningCommand.str = NULLSTR THEN Return(<<Err("execfail")>>)
                ELSE \E o \in Outcomes :
                        LET status == SystemStatus(o)
                        IN  Return(<<Spawn(runningCommand.str, status)>>
                                   \o IF ExecFailed(status) THEN <<Err("execfail")>> ELSE <<>>)

\* replace_placeholder, one round of its loop: the user is asked for a value.
\* The token typed as the value ends the call with the original command.
ReplacePlaceholder ==
    /\ Running("run_commands", "expand")
    /\ Top.prompts < MaxPrompts
    /\ \E value \in UserValues :
        LET f == Top
            input == cJSON_GetObjectItem(ShellCommandOf(f), <<"cmd">>).str
            next == Substitute(f.input_copy, value)
        IN  IF value = PathToken
            THEN Goto([f EXCEPT !.pc = "run",
                                !.input_copy = CancelledResult(input, f.input_copy),
                                !.prompts = f.prompts + 1],
                      <<Ev("prompt", value, 0)>>)
            ELSE Goto([f EXCEPT !.pc = IF MoreTokens(next, f.prompts + 1)
                                       THEN "expand" ELSE "run",
                                !.input_copy = next, !.prompts = f.prompts + 1],
                      <<Ev("prompt", value, 0)>>)

\* The generic branch: the command (expanded or literal) is wrapped and run;
\* the wrapped command is freed after system(), the expanded one (what
\* replace_placeholder returned) after the status is tested, and run_commands
\* comes to its end.
RunCommandsRun ==
    /\ Running("run_commands", "run")
    /\ \E o \in Outcomes :
        LET status == SystemStatus(o)
        IN  /\ stack' = Front(stack)
            /\ events' = events
                   \o <<Spawn(wrap_for_shell(Top.input_copy), status)>>
                   \o (IF ExecFailed(status) THEN <<Err("execfail")>> ELSE <<>>)
                   \o <<Ev("return", Top.userInput, 0)>>
            /\ heap' = (heap \ {Block(Top.start, "input_copy")}) \ Slices
            /\ UNCHANGED <<shell, admin, argv1, PATH, proc>>

(***************************************************************************)
(* check_availability.                                                     *)
(***************************************************************************)
\* The arguments are tested and the probe at the search path is run.
CheckAvailabilityPath ==
    /\ Running("check_availability", "start")
    /\ LET f == Top
       IN  IF NULLSTR \in {f.foundAtPath, f.foundAtDrive, f.addFileToPath}
           THEN ReturnResult(<<Err("tooljson")>>, 1)
           ELSE \E o \in Outcomes :
                    LET status == SystemStatus(o)
                    IN  IF FoundAtPath(status)
                        THEN ReturnResult(<<Spawn(wrap_for_shell(f.foundAtPath), status)>>, 0)
                        ELSE Goto([f EXCEPT !.pc = "drive", !.status = status],
                                  <<Spawn(wrap_for_shell(f.foundAtPath), status)>>)

\* The probe on the drive is run.
CheckAvailabilityDrive ==
    /\ Running("check_availability", "drive")
    /\ \E o \in Outcomes :
        LET f == Top
            status1 == SystemStatus(o)
        IN  IF FoundOnDrive(f.status, status1)
            THEN Goto([f EXCEPT !.pc = "add"],
                      <<Spawn(wrap_for_shell(f.foundAtDrive), status1)>>)
            ELSE ReturnResult(<<Spawn(wrap_for_shell(f.foundAtDrive), status1)>>, 1)

\* Found on the drive, Windows: the addToPath command is wrapped and run.
CheckAvailabilityAddToPath ==
    /\ Running("check_availability", "add")
    /\ shell # "Linux"
    /\ \E o \in Outcomes :
        ReturnResult(<<Spawn(wrap_for_shell(Top.addFileToPath), SystemStatus(o))>>, 0)

\* Found on the drive, POSIX: the drive probe is run again through popen and its
\* first line is read; the directory of that line is put in place of the token
\* of addToPath.  When the directory is empty the test of its last character
\* reads path[strlen(path)-1] outside the text: that read faults or is survived.
CheckAvailabilityPopen ==
    /\ Running("check_availability", "add")
    /\ shell = "Linux"
    /\ \E r \in {<<"nopipe">>, <<"noline">>} \cup DriveLines :
        LET f == Top
            popen == Ev("popen", f.foundAtDrive, 0)
            fgets == Ev("fgets", r, 0)
            path == Directory(r)
            pos == strstr(f.addFileToPath, PathToken)
            new_len == strlen(f.addFileToPath) + strlen(path) + 10
            buffer == snprintf(new_len,
                          SubSeq(f.addFileToPath, 1, pos - 1) \o path
                              \o SubSeq(f.addFileToPath, pos + Len(PathToken),
                                        Len(f.addFileToPath)))
            rest(evs) ==
                IF pos = 0 THEN ReturnResult(evs \o <<Err("notoken")>>, 1)
                ELSE Goto([f EXCEPT !.pc = "export", !.input_copy = buffer], evs)
        IN  IF r = <<"nopipe">> THEN ReturnResult(<<popen, Err("nopipe")>>, 1)
            ELSE IF r = <<"noline">> THEN ReturnResult(<<popen, Err("noline")>>, 1)
            ELSE IF DirectoryBeforeSlashTest(r) = <<>>
                 THEN \E ub \in {"fault", "survive"} :
                        IF ub = "fault"
                        THEN Crash(<<popen, fgets, Ev("outofbounds", r, 0)>>)
                        ELSE rest(<<popen, fgets, Ev("outofbounds", r, 0)>>)
            ELSE rest(<<popen, fgets>>)

\* POSIX: the addToPath command with the directory in it is run, unwrapped.
CheckAvailabilityExport ==
    /\ Running("check_availability", "export")
    /\ \E o \in Outcomes :
        ReturnResult(<<Spawn(Top.input_copy, SystemStatus(o))>>, 0)

(***************************************************************************)
(* main.                                                                   *)
(***************************************************************************)
\* run_commands has returned to main, which returns 0
MainReturn ==
    /\ proc = "running"
    /\ stack = <<>>
    /\ proc' = "exit0"
    /\ UNCHANGED <<shell, admin, argv1, PATH, heap, stack, events>>

\* main has read and parsed the catalog, detected the shell and calls run_commands
Init ==
    /\ shell \in Shells
    /\ admin \in (IF shell = "Linux" THEN {FALSE} ELSE BOOLEAN)
    /\ PATH = InitialPath
    /\ heap = {}
    /\ argv1 \in Names
    /\ stack = <<Frame("run_commands", argv1, 1)>>
    /\ events = <<[kind |-> "enter", depth |-> 1, arg |-> argv1, status |-> 0]>>
    /\ proc = "running"

Next ==
    \/ RunCommandsResolve
    \/ RunCommandsDependency
    \/ RunCommandsCmd
    \/ RunCommandsInstall
    \/ ReplacePlaceholder
    \/ RunCommandsRun
    \/ CheckAvailabilityPath
    \/ CheckAvailabilityDrive
    \/ CheckAvailabilityAddToPath
    \/ CheckAvailabilityPopen
    \/ CheckAvailabilityExport
    \/ MainReturn

Spec == Init /\ [][Next]_vars

(***************************************************************************)
(* replace_placeholder on its own: the function is called with a string,   *)
(* and called again with what it returned.                                 *)
(***************************************************************************)
\* the strings replace_placeholder is called with
ExpandInputs ==
    {<<>>, <<"g">>, PathToken, <<"c", " ">> \o PathToken,
     PathToken \o <<" ">> \o PathToken, <<"c", " ">> \o NameToken,
     <<"{", "{", "p", "a", "t", "h", "}">>}

\* the working copy is made and the token is looked for
ExpandInit ==
    /\ shell = "Linux"
    /\ admin = FALSE
    /\ PATH = InitialPath
    /\ heap = {Block(1, "input_copy")}
    /\ argv1 \in ExpandInputs
    /\ stack = <<[Frame("replace_placeholder", argv1, 1)
                    EXCEPT !.pc = "loop", !.input_copy = argv1]>>
    /\ events = <<[kind |-> "expand", depth |-> 0, arg |-> argv1, status |-> 0]>>
    /\ proc = "running"

\* one round of the loop: a value is read; the token as the value ends the call
\* with a copy of the argument (status 1 marks the cancelled call)
ExpandPrompt ==
    /\ Running("replace_placeholder", "loop")
    /\ MoreTokens(Top.input_copy, Top.prompts)
    /\ Top.prompts < MaxPrompts
    /\ \E value \in UserValues :
        LET f == Top
        IN  IF value = PathToken
            THEN Goto([f EXCEPT !.pc = "returned",
                                !.input_copy = CancelledResult(f.userInput, f.input_copy),
                                !.prompts = f.prompts + 1],
                      <<Ev("prompt", value, 0),
                        Ev("expanded", CancelledResult(f.userInput, f.input_copy), 1)>>)
            ELSE Goto([f EXCEPT !.input_copy = Substitute(f.input_copy, value),
                                !.prompts = f.prompts + 1],
                      <<Ev("prompt", value, 0)>>)

\* no token is left: the working copy is returned
ExpandReturn ==
    /\ Running("replace_placeholder", "loop")
    /\ ~MoreTokens(Top.input_copy, Top.prompts)
    /\ Goto([Top EXCEPT !.pc = "returned"], <<Ev("expanded", Top.input_copy, 0)>>)

\* the function is called with the string it returned
ExpandAgain ==
    /\ Running("replace_placeholder", "returned")
    /\ Top.i + 1 < MaxCalls
    /\ Goto([Frame("replace_placeholder", Top.input_copy, 1)
                EXCEPT !.pc = "loop", !.input_copy = Top.input_copy, !.i = Top.i + 1],
            <<Ev("expand", Top.input_copy, 0)>>)

ExpandNext == ExpandPrompt \/ ExpandReturn \/ ExpandAgain

SpecExpand == ExpandInit /\ [][ExpandNext]_vars

(***************************************************************************)
(* wrap_for_shell on its own: the function is called with a command under  *)
(* each shell identifier.                                                  *)
(***************************************************************************)
\* the characters of the commands wrap_for_shell is called with
WrapAlphabet == {"a", " ", "\""}

\* every command of at most MaxLen characters
WrapInputs == UNION {[1..n -> WrapAlphabet] : n \in 0..MaxLen}

WrapInit ==
    /\ shell \in Shells
    /\ admin = FALSE
    /\ PATH = InitialPath
    /\ heap = {}
    /\ argv1 \in WrapInputs
    /\ stack = <<Frame("wrap_for_shell", argv1, 1)>>
    /\ events = <<>>
    /\ proc = "running"

\* the call: what it returns is kept in input_copy
WrapForShell ==
    /\ Running("wrap_for_shell", "start")
    /\ Goto([Top EXCEPT !.pc = "returned", !.input_copy = wrap_for_shell(Top.userInput)],
            <<>>)

WrapNext == WrapForShell

SpecWrap == WrapInit /\ [][WrapNext]_vars

(***************************************************************************)
(* main from its first line: the startup steps, then help or run_commands. *)
(***************************************************************************)
\* the literal "help"
HELP == <<"h", "e", "l", "p">>

\* the activation of main; path is what resolveJSONPath returned
MainFrame(argc) == [fn |-> "main", pc |-> "start", argc |-> argc, path |-> NULLSTR]

\* main returns status: the process ends
Exit(status, evs) ==
    /\ proc' = status
    /\ stack' = <<>>
    /\ events' = events \o evs
    /\ UNCHANGED <<shell, admin, argv1, PATH, heap>>

\* the process is started with argc - 1 arguments; shell is not yet set
MainInit ==
    /\ shell = "NULL"
    /\ admin = FALSE
    /\ PATH = InitialPath
    /\ heap = {}
    /\ \E argc \in 1..3 :
          /\ stack = <<MainFrame(argc)>>
          /\ argv1 \in (IF argc = 1 THEN {NULLSTR}
                        ELSE IF argc = 2 THEN Names \cup {HELP}
                        ELSE {HELP, Dotted(B, <<"c">>)})
    /\ events = <<>>
    /\ proc = "running"

\* the test of the argument count
MainArgs ==
    /\ Running("main", "start")
    /\ IF Top.argc # 2 THEN Exit("exit1", <<Err("usage")>>)
       ELSE Goto([Top EXCEPT !.pc = "locate"], <<>>)

\* resolveJSONPath: one of the places it tries has the catalog (a path is
\* returned) or none has (NULL is returned).  main logs a NULL and goes on.
MainLocate ==
    /\ Running("main", "locate")
    /\ \E path \in {<<"t">>, NULLSTR} :
          Goto([Top EXCEPT !.pc = "read", !.path = path],
               <<Ev("locate", path, 0)>>
                   \o IF path = NULLSTR THEN <<Err("nopath")>> ELSE <<>>)

\* read_file_to_buffer(path), free(path) and the test of what was read.  With
\* a NULL path fopen is handed a NULL pointer: the call faults, or is survived
\* and opens nothing.
MainRead ==
    /\ Running("main", "read")
    /\ LET read == Ev("read", Top.path, 0)
           failed(tag) == Exit("exit1", <<read, Err(tag), Err("readfail")>>)
       IN  IF Top.path = NULLSTR
           THEN \E ub \in {"fault", "survive"} :
                    IF ub = "fault" THEN Crash(<<read>>) ELSE failed("notopened")
           ELSE \E file \in {"notopened", "emptyfile", "nomem", "shortread", "ok"} :
                    IF file # "ok" THEN failed(file)
                    ELSE Goto([Top EXCEPT !.pc = "parse", !.path = NULLSTR], <<read>>)

\* cJSON_Parse(tasks)
MainParse ==
    /\ Running("main", "parse")
    /\ \E parsed \in BOOLEAN :
          IF ~parsed THEN Exit("exit1", <<Ev("parse", <<>>, 0), Err("parse")>>)
          ELSE Goto([Top EXCEPT !.pc = "detect"], <<Ev("parse", <<>>, 0)>>)

\* detect_shell: the build and the environment decide the identifier
MainDetect ==
    /\ Running("main", "detect")
    /\ shell' \in Shells
    /\ admin' \in (IF shell' = "Linux" THEN {FALSE} ELSE BOOLEAN)
    /\ stack' = SetTop([Top EXCEPT !.pc = "dispatch"])
    /\ events' = events \o <<Ev("detect", <<shell'>>, 0)>>
    /\ UNCHANGED <<argv1, PATH, heap, proc>>

\* the argument is help, or a name run_commands is called with
MainDispatch ==
    /\ Running("main", "dispatch")
    /\ IF argv1 = HELP
       THEN Goto([Top EXCEPT !.pc = "help"], <<>>)
       ELSE /\ stack' = SetTop([Top EXCEPT !.pc = "called"])
                           \o <<Frame("run_commands", argv1, Len(events) + 1)>>
            /\ events' = events \o <<[Ev("enter", argv1, 0) EXCEPT !.depth = 1]>>
            /\ UNCHANGED <<shell, admin, argv1, PATH, heap, proc>>

\* help: the category.subcommand pairs of the catalog in the order of its
\* children
RECURSIVE HelpPairsFrom(_)
HelpPairsFrom(c) ==
    IF c > Len(root.items) THEN <<>>
    ELSE LET object == root.items[c]
         IN  [n \in 1..Len(object.val.items) |->
                 [command |-> Dotted(object.key, object.val.items[n].key),
                  node |-> object.val.items[n].val]]
             \o HelpPairsFrom(c + 1)

\* a listing that passes over a pair without the shell key
HelpStopsNever(shellObject) == FALSE

\* help, the test that ends the listing
HelpStops(shellObject) == shellObject = NULL

\* help, the loop from one pair on: a line for a pair with a string use under
\* the shell; at a pair without the shell key an error is logged and help returns
RECURSIVE HelpFrom(_)
HelpFrom(pairs) ==
    IF pairs = <<>> THEN <<>>
    ELSE LET shellObject == cJSON_GetObjectItem(Head(pairs).node, <<shell>>)
             use == cJSON_GetObjectItem(shellObject, <<"use">>)
         IN  IF HelpStops(shellObject) THEN <<Err("noshell")>>
             ELSE (IF cJSON_IsObject(shellObject) /\ cJSON_IsString(use)
                   THEN <<Ev("print", Head(pairs).command, 0)>> ELSE <<>>)
                  \o HelpFrom(Tail(pairs))

\* help(root): the two lines of the heading, then the listing
Help ==
    /\ Running("main", "help")
    /\ Goto([Top EXCEPT !.pc = "called"],
            <<Ev("heading", <<>>, 0)>> \o HelpFrom(HelpPairsFrom(1)))

\* help or run_commands has returned: the catalog is deleted, main returns 0
MainExit ==
    /\ Running("main", "called")
    /\ Exit("exit0", <<>>)

MainNext ==
    \/ MainArgs
    \/ MainLocate
    \/ MainRead
    \/ MainParse
    \/ MainDetect
    \/ MainDispatch
    \/ Help
    \/ MainExit
    \/ RunCommandsResolve
    \/ RunCommandsDependency
    \/ RunCommandsCmd
    \/ RunCommandsInstall
    \/ ReplacePlaceholder
    \/ RunCommandsRun
    \/ CheckAvailabilityPath
    \/ CheckAvailabilityDrive
    \/ CheckAvailabilityAddToPath
    \/ CheckAvailabilityPopen
    \/ CheckAvailabilityExport

SpecMain == MainInit /\ [][MainNext]_vars

(***************************************************************************)
(* Reading the history.                                                    *)
(***************************************************************************)
\* the places of the history at which run_commands was entered
Invocations == {s \in 1..Len(events) : events[s].kind = "enter"}

\* the returns of the invocation entered at s
Returns(s) ==
    {k \in (s + 1)..Len(events) :
        events[k].kind = "return" /\ events[k].depth = events[s].depth}

Returned(s) == Returns(s) # {}

\* the last place of the invocation entered at s: its return, or the end of the
\* history while it is active
Last(s) ==
    IF Returned(s) THEN CHOOSE k \in Returns(s) : \A j \in Returns(s) : k <= j
    ELSE Len(events)

\* the places within the invocation entered at s
Within(s) == s..Last(s)

\* the places of what the invocation entered at s did in its own dispatch
OwnActs(s) ==
    {k \in Within(s) : /\ events[k].depth = events[s].depth
                       /\ events[k].kind \in {"spawn", "prompt", "popen", "is_admin"}}

\* the spawns of the invocation entered at s, of its dependencies too
AllSpawns(s) == {k \in Within(s) : events[k].kind \in {"spawn", "popen"}}

\* the place at which the invocation entered at s began its dispatch, if it did
Dispatches(s) ==
    {k \in Within(s) : events[k].kind = "dispatch" /\ events[k].depth = events[s].depth}

\* the names with which the invocation entered at s re-entered run_commands
Entered(s) ==
    LET IsChild(e) == e.kind = "enter" /\ e.depth = events[s].depth + 1
        children == SelectSeq(SubSeq(events, s, Last(s)), IsChild)
    IN  [n \in 1..Len(children) |-> children[n].arg]

IsPrefix(a, b) == Len(a) <= Len(b) /\ a = SubSeq(b, 1, Len(a))

(***************************************************************************)
(* Reading the catalog.                                                    *)
(***************************************************************************)
\* the place of the first '.' of the name (from 1), 0 if it has none
DotPlace(name) ==
    LET dots == {p \in 1..Len(name) : name[p] = "."}
    IN  IF dots = {} THEN 0 ELSE CHOOSE p \in dots : \A q \in dots : p <= q

WellFormed(name) == DotPlace(name) > 1 /\ DotPlace(name) < Len(name)

CategoryOf(name) == SubSeq(name, 1, DotPlace(name) - 1)

SubcommandOf(name) == SubSeq(name, DotPlace(name) + 1, Len(name))

\* the value stored under the key in a mapping, NULL if the node is no mapping or
\* has no such key
Field(node, key) ==
    IF node.type = "object" /\ \E n \in 1..Len(node.items) : node.items[n].key = key
    THEN node.items[CHOOSE n \in 1..Len(node.items) :
                        /\ node.items[n].key = key
                        /\ \A m \in 1..(n - 1) : node.items[m].key # key].val
    ELSE NULL

\* the catalog entry of a well-formed name, NULL if there is none
EntryOf(name) ==
    IF WellFormed(name) THEN Field(Field(root, CategoryOf(name)), SubcommandOf(name))
    ELSE NULL

\* the variant of the name under the active shell, NULL if there is none
VariantOf(name) == Field(EntryOf(name), <<shell>>)

\* the name resolves under the active shell
Resolves(name) == VariantOf(name).type = "object"

\* the string entries of the dependsOn list of the name, in declared order
DeclaredDeps(name) ==
    LET list == Field(VariantOf(name), <<"dependsOn">>)
        IsStr(kv) == kv.val.type = "string"
        strs == IF list.type = "array" THEN SelectSeq(list.items, IsStr) ELSE <<>>
    IN  [n \in 1..Len(strs) |-> strs[n].val.str]

(***************************************************************************)
(* C1.  For every invocation whose name resolves under the active shell,   *)
(* run_commands is re-entered with the string entries of dependsOn in      *)
(* declared order, once per entry (all of them by the time the dispatch    *)
(* begins), and nothing a dependency does comes after the first spawn or   *)
(* prompt of the parent's own dispatch phase.                              *)
(***************************************************************************)
C1_DependenciesInOrderBeforeDispatch ==
    \A s \in Invocations :
        Resolves(events[s].arg) =>
            /\ IsPrefix(Entered(s), DeclaredDeps(events[s].arg))
            /\ Dispatches(s) # {} => Entered(s) = DeclaredDeps(events[s].arg)
            /\ \A k \in OwnActs(s) :
                  /\ \E d \in Dispatches(s) : d < k
                  /\ \A j \in k..Last(s) : events[j].depth <= events[s].depth

\* a command with two dependencies has returned: both spawned, then it spawned
C1_Witness ==
    \E s \in Invocations :
        /\ Returned(s)
        /\ Len(DeclaredDeps(events[s].arg)) = 2
        /\ Len(Entered(s)) = 2
        /\ \E k \in OwnActs(s) : events[k].kind = "spawn"
        /\ Cardinality({k \in AllSpawns(s) : events[k].depth = events[s].depth + 1}) = 2

(***************************************************************************)
(* More reading of the history and of the catalog.                         *)
(***************************************************************************)
\* run_commands was entered at s and has not done anything yet
Pending(s) == ~Returned(s) /\ Len(events) = s /\ proc = "running"

\* the invocation entered at s looked up keys, logged one error with one of the
\* tags, and returned: no dependency, no dispatch, no spawn, no prompt
EndedInError(s, tags) ==
    /\ Returned(s)
    /\ Last(s) >= s + 2
    /\ \A k \in (s + 1)..(Last(s) - 2) : events[k].kind = "lookup"
    /\ events[Last(s) - 1].kind = "error"
    /\ events[Last(s) - 1].depth = events[s].depth
    /\ events[Last(s) - 1].arg \in {<<t>> : t \in tags}

\* the command as the shell wrapper hands it to system()
Wrapped(command) ==
    IF shell = "Powershell" THEN PSPrefix \o command \o <<"\"">> ELSE command

\* the places of the history at which check_availability was called
Calls == {k \in 1..Len(events) : events[k].kind = "call"}

\* the event n places after k is a spawn
SpawnAt(k, n) == k + n <= Len(events) /\ events[k + n].kind = "spawn"

\* the event n places after k is the result r of check_availability
ResultAt(k, n, r) ==
    /\ k + n <= Len(events)
    /\ events[k + n].kind = "result"
    /\ events[k + n].status = r

\* the string of a probe field of the entry with the name
ProbeOf(name, key) == Field(VariantOf(name), <<key>>).str

\* the name resolves, is of a category other than install, and its cmd is
\* absent or no string
BadCmd(name) ==
    /\ Resolves(name)
    /\ CategoryOf(name) # INSTALL
    /\ Field(VariantOf(name), <<"cmd">>).type # "string"

\* the name is an install entry other than all, one of whose probe fields is
\* absent or no string
BadProbes(name) ==
    /\ Resolves(name)
    /\ CategoryOf(name) = INSTALL
    /\ SubcommandOf(name) # ALL
    /\ Field(VariantOf(name), <<"cmd">>) # NULL
    /\ \E key \in {"atPath", "atDrive", "addToPath"} :
          Field(VariantOf(name), <<key>>).type # "string"

\* the entry of the name is a mapping without the key of the active shell
LacksShell(name) ==
    /\ EntryOf(name).type = "object"
    /\ Field(EntryOf(name), <<shell>>) = NULL

\* the name is well formed and its category is no key of the catalog, or its
\* subcommand no key of that category
Unknown(name) ==
    /\ WellFormed(name)
    /\ \/ Field(root, CategoryOf(name)) = NULL
       \/ /\ Field(root, CategoryOf(name)).type = "object"
          /\ Field(Field(root, CategoryOf(name)), SubcommandOf(name)) = NULL

(***************************************************************************)
(* C2.  A dependency that fails in any way prevents neither the remaining  *)
(* sibling dependencies from being attempted nor the parent from entering  *)
(* its dispatch phase: once the process has ended, every invocation whose  *)
(* name resolves has re-entered with all of its dependencies and has       *)
(* begun its dispatch.                                                     *)
(***************************************************************************)
C2_FailedDependencyStopsNothing ==
    proc # "running" =>
        \A s \in Invocations :
            Resolves(events[s].arg) =>
                /\ Entered(s) = DeclaredDeps(events[s].arg)
                /\ Dispatches(s) # {}

(***************************************************************************)
(* C3.  An entry of a category other than install whose cmd is absent or   *)
(* no string logs a configuration error, spawns nothing of its own and     *)
(* returns, under every shell identifier: the process does not end in the  *)
(* entry's dispatch.                                                       *)
(***************************************************************************)
C3_BadCmdIsAnErrorNotACrash ==
    \A s \in Invocations :
        BadCmd(events[s].arg) =>
            /\ OwnActs(s) = {}
            /\ \A k \in Dispatches(s) :
                  /\ Returned(s)
                  /\ Last(s) = k + 2
                  /\ events[k + 1].kind = "error"
                  /\ events[k + 1].arg = <<"nocmd">>

(***************************************************************************)
(* C4.  Resolving a name whose catalog entry lacks the key of the active   *)
(* shell ends in the error "shell-specific command missing": no            *)
(* dependency is entered, no process is spawned, no prompt is issued.      *)
(***************************************************************************)
C4_MissingShellVariantFailsCleanly ==
    \A s \in Invocations :
        LacksShell(events[s].arg) => Pending(s) \/ EndedInError(s, {"noshell"})

\* such an entry, with dependencies declared under another shell, was resolved
\* as a dependency and its parent went on
C4_Witness ==
    \E s \in Invocations :
        /\ LacksShell(events[s].arg)
        /\ Field(Field(EntryOf(events[s].arg), <<"Powershell">>), <<"dependsOn">>).items # <<>>
        /\ EndedInError(s, {"noshell"})
        /\ events[s].depth = 2
        /\ Len(events) > Last(s)

(***************************************************************************)
(* C5.  As claimed: a name with no '.', or with a '.' at position 0, or    *)
(* with a '.' at its last index fails with a syntax error, with no catalog *)
(* lookup and no spawn.                                                    *)
(***************************************************************************)
C5_AnyDotAtTheEndIsASyntaxError ==
    \A s \in Invocations :
        LET name == events[s].arg
        IN  (\/ DotPlace(name) = 0
             \/ name[1] = "."
             \/ name[Len(name)] = ".")
            => Pending(s) \/ (Last(s) = s + 2 /\ EndedInError(s, {"format", "syntax"}))

(***************************************************************************)
(* C5, amended.  A name with no '.', or whose first '.' is at position 0   *)
(* or at its last index, fails with a syntax error, with no catalog lookup *)
(* and no spawn.                                                           *)
(***************************************************************************)
C5_FirstDotMisplacedIsASyntaxError ==
    \A s \in Invocations :
        LET name == events[s].arg
        IN  (\/ DotPlace(name) = 0
             \/ DotPlace(name) = 1
             \/ DotPlace(name) = Len(name))
            => Pending(s) \/ (Last(s) = s + 2 /\ EndedInError(s, {"format", "syntax"}))

\* each of the three shapes has been rejected
C5_Witness ==
    /\ \E s \in Invocations :
          DotPlace(events[s].arg) = 0 /\ events[s].arg # <<>> /\ Returned(s)
    /\ \E s \in Invocations : DotPlace(events[s].arg) = 1 /\ Returned(s)
    /\ \E s \in Invocations :
          /\ DotPlace(events[s].arg) = Len(events[s].arg)
          /\ Len(events[s].arg) > 1
          /\ Returned(s)

(***************************************************************************)
(* C6.  Resolving a well-formed name whose category is no key of the       *)
(* catalog, or whose subcommand is no key of that category, ends in a      *)
(* logged "no such category" error before the dependency phase: no         *)
(* dependency, no spawn, no prompt.                                        *)
(***************************************************************************)
C6_UnknownNameIsLoggedBeforeDependencies ==
    \A s \in Invocations :
        Unknown(events[s].arg) =>
            Pending(s) \/ EndedInError(s, {"nocategory", "nosubcommand"})

\* an unknown category and an unknown subcommand have both been rejected
C6_Witness ==
    /\ \E s \in Invocations :
          /\ Unknown(events[s].arg)
          /\ Field(root, CategoryOf(events[s].arg)) = NULL
          /\ EndedInError(s, {"nocategory"})
    /\ \E s \in Invocations :
          /\ Unknown(events[s].arg)
          /\ Field(root, CategoryOf(events[s].arg)) # NULL
          /\ EndedInError(s, {"nosubcommand"})

(***************************************************************************)
(* C7.  In check_availability, when the probe at the search path ends with *)
(* status 0 the result is 0 (already usable) and the call spawns nothing   *)
(* else: neither the drive probe nor addToPath.                            *)
(***************************************************************************)
C7_FoundAtPathStopsTheCheck ==
    \A k \in Calls :
        (SpawnAt(k, 1) /\ events[k + 1].status = 0) =>
            /\ events[k + 1].arg = Wrapped(ProbeOf(events[k].arg, "atPath"))
            /\ ResultAt(k, 2, 0)

C7_Witness ==
    \E k \in Calls : SpawnAt(k, 1) /\ events[k + 1].status = 0 /\ ResultAt(k, 2, 0)

(***************************************************************************)
(* C8.  In check_availability under CMD or Powershell, for every nonzero   *)
(* status of the probe at the search path, a drive probe that ends with    *)
(* status 0 is followed by the wrapped addToPath command and the result 0. *)
(***************************************************************************)
C8_FoundOnDriveAfterAnyNonzeroStatus ==
    shell # "Linux" =>
        \A k \in Calls :
            (/\ SpawnAt(k, 1) /\ events[k + 1].status # 0
             /\ SpawnAt(k, 2) /\ events[k + 2].status = 0)
            => /\ k + 3 <= Len(events) =>
                    /\ events[k + 3].kind = "spawn"
                    /\ events[k + 3].arg = Wrapped(ProbeOf(events[k].arg, "addToPath"))
               /\ k + 4 <= Len(events) => ResultAt(k, 4, 0)

(***************************************************************************)
(* C9.  In check_availability, when the probe at the search path and the   *)
(* drive probe both end with a nonzero status, the result is 1 (not found) *)
(* and the spawns of the call are the wrapped path probe and then the      *)
(* wrapped drive probe, nothing else.                                      *)
(***************************************************************************)
C9_BothProbesFailMeansNotFound ==
    \A k \in Calls :
        (/\ SpawnAt(k, 1) /\ events[k + 1].status # 0
         /\ SpawnAt(k, 2) /\ events[k + 2].status # 0)
        => /\ events[k + 1].arg = Wrapped(ProbeOf(events[k].arg, "atPath"))
           /\ events[k + 2].arg = Wrapped(ProbeOf(events[k].arg, "atDrive"))
           /\ ResultAt(k, 3, 1)

\* the path probe ended with status 1 and the drive probe with a nonzero status
C9_Witness ==
    \E k \in Calls :
        /\ SpawnAt(k, 1) /\ events[k + 1].status = 1
        /\ SpawnAt(k, 2) /\ events[k + 2].status # 0
        /\ ResultAt(k, 3, 1)

(***************************************************************************)
(* C10.  An install entry (other than all) with a probe field that is      *)
(* absent or no string logs a configuration error without a crash, runs no *)
(* probe, has the result 1 (not found) and still attempts the install      *)
(* command.                                                                *)
(***************************************************************************)
C10_BadProbesAreAnErrorNotACrash ==
    \A s \in Invocations :
        BadProbes(events[s].arg) =>
            \A k \in Dispatches(s) :
                /\ ~(proc = "crashed" /\ ~Returned(s))
                /\ k + 2 <= Len(events) =>
                      events[k + 2].kind = "error" /\ events[k + 2].arg = <<"tooljson">>
                /\ k + 3 <= Len(events) => ResultAt(k, 3, 1)
                /\ Returned(s) => \E j \in OwnActs(s) : events[j].kind = "spawn"

(***************************************************************************)
(* History of the POSIX branch of check_availability.                      *)
(***************************************************************************)
\* the places of the history at which the drive probe was run through popen
Popens == {k \in 1..Len(events) : events[k].kind = "popen"}

\* the popen at k could not be started, or printed no line
Unreadable(k) ==
    /\ events[k + 1].kind = "error"
    /\ events[k + 1].arg \in {<<"nopipe">>, <<"noline">>}

\* the places after k up to the return of the invocation k belongs to
RestOfInvocation(k) ==
    {j \in (k + 1)..Len(events) :
        \A m \in (k + 1)..j :
            ~(events[m].kind = "return" /\ events[m].depth = events[k].depth)}

(***************************************************************************)
(* C11.  On the POSIX target, when the drive probe run through popen       *)
(* cannot be started or prints no line, an error is logged and, in the     *)
(* rest of that invocation, nothing is spawned and no probe is run again:  *)
(* addToPath is not run and no install command is spawned for the entry.   *)
(***************************************************************************)
C11_UnreadableProbeHaltsTheInstall ==
    shell = "Linux" =>
        \A k \in Popens :
            Unreadable(k) =>
                \A j \in RestOfInvocation(k) :
                    events[j].kind \notin {"spawn", "popen"}

\* the popen at k read a line
LineRead(k) == k + 1 <= Len(events) /\ events[k + 1].kind = "fgets"

\* the line without its newline and without its last '/'-delimited segment
Dirname(line) ==
    LET text == SelectSeq(line, LAMBDA ch : ch # "\n")
        slashes == {p \in 1..Len(text) : text[p] = "/"}
    IN  IF slashes = {} THEN text
        ELSE SubSeq(text, 1, (CHOOSE p \in slashes : \A q \in slashes : q <= p) - 1)

\* the text with value in place of its first token
FirstTokenReplaced(text, value) ==
    LET at == {p \in 1..(Len(text) - Len(PathToken) + 1) :
                  SubSeq(text, p, p + Len(PathToken) - 1) = PathToken}
        first == CHOOSE p \in at : \A q \in at : p <= q
    IN  IF at = {} THEN text
        ELSE SubSeq(text, 1, first - 1) \o value
                 \o SubSeq(text, first + Len(PathToken), Len(text))

\* on the POSIX target system() returns a wait status: the exit code times 256
ExitedNonzero(status) == status # 0 /\ status % 256 = 0

(***************************************************************************)
(* C12.  On the POSIX target, when the probe at the search path exits with *)
(* a nonzero code and the drive probe exits with code 0, the drive probe   *)
(* is run again through popen and, once a line is read, the next command   *)
(* run is addToPath with its first {{path}} replaced by the line without   *)
(* its newline and without its last '/'-delimited segment; the result is 0 *)
(* (already usable).                                                       *)
(***************************************************************************)
C12_PosixFoundOnDriveExportsTheDirectory ==
    shell = "Linux" =>
        \A k \in Calls :
            (/\ SpawnAt(k, 1) /\ ExitedNonzero(events[k + 1].status)
             /\ SpawnAt(k, 2) /\ events[k + 2].status = 0)
            => /\ k + 3 <= Len(events) =>
                    /\ events[k + 3].kind = "popen"
                    /\ events[k + 3].arg = ProbeOf(events[k].arg, "atDrive")
               /\ (LineRead(k + 3) /\ k + 5 <= Len(events)) =>
                    /\ events[k + 5].kind = "spawn"
                    /\ events[k + 5].arg =
                          FirstTokenReplaced(ProbeOf(events[k].arg, "addToPath"),
                                             Dirname(events[k + 4].arg))
               /\ (LineRead(k + 3) /\ k + 6 <= Len(events)) => ResultAt(k, 6, 0)

\* the places of the history at which check_availability returned
Results == {j \in 1..Len(events) : events[j].kind = "result"}

\* the name is an install entry other than all
InstallEntryName(name) ==
    Resolves(name) /\ CategoryOf(name) = INSTALL /\ SubcommandOf(name) # ALL

(***************************************************************************)
(* C13.  For every install entry other than all, when check_availability   *)
(* returns 0 (already usable) the invocation returns at once: after the    *)
(* result nothing is spawned in that dispatch (neither the choco, the      *)
(* scoop nor the plain cmd) and is_admin is not called.                    *)
(***************************************************************************)
C13_AlreadyUsableInstallsNothing ==
    \A j \in Results :
        (InstallEntryName(events[j].arg) /\ events[j].status = 0) =>
            /\ \A m \in RestOfInvocation(j) :
                  events[m].kind \notin {"spawn", "popen", "is_admin"}
            /\ j + 1 <= Len(events) =>
                  /\ events[j + 1].kind = "return"
                  /\ events[j + 1].depth = events[j].depth

\* an install entry found on the drive has returned after the result 0
C13_Witness ==
    \E j \in Results :
        /\ InstallEntryName(events[j].arg) /\ events[j].status = 0
        /\ events[j - 2].kind = "spawn" /\ events[j - 2].status = 0
        /\ events[j - 3].kind = "spawn" /\ events[j - 3].status # 0
        /\ j + 1 <= Len(events) /\ events[j + 1].kind = "return"

\* the installer command of the name stored under the key, NULL if there is none
InstallerOf(name, key) == Field(Field(VariantOf(name), <<"cmd">>), <<key>>)

\* the key the privilege level selects, and the other one
SelectedKey == IF admin THEN "choco" ELSE "scoop"

OtherKey == IF admin THEN "scoop" ELSE "choco"

\* the spawns that follow the place j within its invocation
SpawnsAfter(j) == {m \in RestOfInvocation(j) : events[m].kind = "spawn"}

(***************************************************************************)
(* C14.  Under CMD and Powershell, when check_availability returns 1 (not  *)
(* found) for an install entry whose selected installer entry (choco when  *)
(* elevated, scoop otherwise) is a string, is_admin is called and then     *)
(* exactly one command is spawned: the wrap of the selected entry.  The    *)
(* entry that is not selected is never spawned.                            *)
(***************************************************************************)
C14_WindowsInstallsWithTheSelectedInstaller ==
    shell \in {"CMD", "Powershell"} =>
        \A j \in Results :
            (InstallEntryName(events[j].arg) /\ events[j].status = 1) =>
                LET selected == InstallerOf(events[j].arg, SelectedKey)
                    other == InstallerOf(events[j].arg, OtherKey)
                IN  /\ j + 1 <= Len(events) => events[j + 1].kind = "is_admin"
                    /\ (selected.type = "string" /\ j + 2 <= Len(events)) =>
                          /\ events[j + 2].kind = "spawn"
                          /\ events[j + 2].arg = Wrapped(selected.str)
                          /\ SpawnsAfter(j) = {j + 2}
                    /\ other.type = "string" =>
                          \A m \in SpawnsAfter(j) : events[m].arg # Wrapped(other.str)

\* elevated under Powershell: the wrapped choco command was spawned, the
\* invocation has returned
C14_Witness ==
    /\ shell = "Powershell"
    /\ admin
    /\ \E j \in Results :
          /\ InstallEntryName(events[j].arg) /\ events[j].status = 1
          /\ InstallerOf(events[j].arg, "scoop").type = "string"
          /\ j + 3 <= Len(events)
          /\ events[j + 2].kind = "spawn"
          /\ events[j + 2].arg = PSPrefix \o InstallerOf(events[j].arg, "choco").str \o <<"\"">>
          /\ \E m \in (j + 3)..Len(events) :
                events[m].kind = "return" /\ events[m].depth = events[j].depth

(***************************************************************************)
(* C15.  Under the Linux identifier is_admin is never called, and when     *)
(* check_availability returns 1 (not found) for an install entry whose cmd *)
(* is a string, the one command spawned next is that string itself, with   *)
(* nothing put around it.                                                  *)
(***************************************************************************)
C15_LinuxInstallsThePlainCmd ==
    shell = "Linux" =>
        /\ \A k \in 1..Len(events) : events[k].kind # "is_admin"
        /\ \A j \in Results :
              (/\ InstallEntryName(events[j].arg) /\ events[j].status = 1
               /\ Field(VariantOf(events[j].arg), <<"cmd">>).type = "string"
               /\ j + 1 <= Len(events))
              => /\ events[j + 1].kind = "spawn"
                 /\ events[j + 1].arg = Field(VariantOf(events[j].arg), <<"cmd">>).str
                 /\ SpawnsAfter(j) = {j + 1}

\* under Linux both probes failed, the plain cmd was spawned and the invocation
\* has returned
C15_Witness ==
    /\ shell = "Linux"
    /\ \E j \in Results :
          /\ InstallEntryName(events[j].arg) /\ events[j].status = 1
          /\ events[j - 1].kind = "spawn" /\ events[j - 1].status # 0
          /\ j + 2 <= Len(events)
          /\ events[j + 1].kind = "spawn"
          /\ events[j + 1].arg = <<"A">>
          /\ events[Len(events)].kind = "return"

\* the places at which the invocation entered at s called check_availability
OwnCalls(s) ==
    {k \in Within(s) : events[k].kind = "call" /\ events[k].depth = events[s].depth}

Contains(text, token) ==
    \E p \in 1..(Len(text) - Len(token) + 1) :
        SubSeq(text, p, p + Len(token) - 1) = token

\* the cmd string of the name, NULLSTR if it has none
CmdOf(name) == Field(VariantOf(name), <<"cmd">>).str

\* an entry of a category other than install whose cmd has a placeholder
GenericWithToken(name) ==
    /\ Resolves(name)
    /\ CategoryOf(name) # INSTALL
    /\ Field(VariantOf(name), <<"cmd">>).type = "string"
    /\ Contains(CmdOf(name), PathToken) \/ Contains(CmdOf(name), NameToken)

\* the prompts and the spawns of the invocation entered at s itself
OwnPrompts(s) == {k \in OwnActs(s) : events[k].kind = "prompt"}

OwnSpawns(s) == {k \in OwnActs(s) : events[k].kind = "spawn"}

(***************************************************************************)
(* C17.  For every entry of a category other than install whose cmd has a  *)
(* {{path}} or a {{name}} token, the user is prompted before the entry's   *)
(* command is spawned, and when no value typed is a token itself the one   *)
(* command spawned has neither {{path}} nor {{name}} in it.                *)
(***************************************************************************)
C17_EveryTokenIsPromptedForAndReplaced ==
    \A s \in Invocations :
        GenericWithToken(events[s].arg) =>
            \A k \in OwnSpawns(s) :
                /\ \E p \in OwnPrompts(s) : p < k
                /\ OwnSpawns(s) = {k}
                /\ (\A p \in OwnPrompts(s) : events[p].arg \notin {PathToken, NameToken})
                      => /\ ~Contains(events[k].arg, PathToken)
                         /\ ~Contains(events[k].arg, NameToken)

(***************************************************************************)
(* C18.  In replace_placeholder, when the value typed at a prompt is the   *)
(* token itself, no further prompt is issued and the string returned is    *)
(* the original cmd, character for character: whatever was put in at       *)
(* earlier prompts of the call is gone, and the command spawned next is    *)
(* the wrap of the original cmd.                                           *)
(***************************************************************************)
C18_TokenAsValueReturnsTheOriginal ==
    \A s \in Invocations :
        \A k \in OwnPrompts(s) :
            events[k].arg = PathToken =>
                /\ \A p \in OwnPrompts(s) : p <= k
                /\ k = Len(events) =>
                      /\ Top.pc = "run"
                      /\ Top.input_copy = CmdOf(events[s].arg)
                /\ k + 1 <= Len(events) =>
                      /\ events[k + 1].kind = "spawn"
                      /\ events[k + 1].arg = Wrapped(CmdOf(events[s].arg))

\* a value was put in at the first prompt, the token was typed at the second,
\* and the original cmd was spawned
C18_Witness ==
    \E s \in Invocations :
        \E k \in OwnPrompts(s) :
            /\ events[k].arg = PathToken
            /\ k - 1 \in OwnPrompts(s)
            /\ events[k - 1].arg = <<"v">>
            /\ k + 1 <= Len(events)
            /\ events[k + 1].kind = "spawn"
            /\ Contains(events[k + 1].arg, PathToken)
            /\ ~Contains(events[k + 1].arg, <<"v">>)

\* the places of the history at which replace_placeholder was called
Expands == {k \in 1..Len(events) : events[k].kind = "expand"}

(***************************************************************************)
(* C19.  A call of replace_placeholder with a string that has no token in  *)
(* it issues no prompt and returns a string equal to its argument.  So a   *)
(* call with what a completed call (one that was not cancelled) returned   *)
(* gives that string back unchanged.                                       *)
(***************************************************************************)
C19_NoTokenNoPromptSameString ==
    /\ \A k \in Expands :
          (~Contains(events[k].arg, PathToken) /\ k + 1 <= Len(events)) =>
              /\ events[k + 1].kind = "expanded"
              /\ events[k + 1].arg = events[k].arg
              /\ events[k + 1].status = 0
    /\ \A k \in Expands :
          (/\ k > 1 /\ events[k - 1].kind = "expanded" /\ events[k - 1].status = 0
           /\ k + 1 <= Len(events))
          => /\ events[k + 1].kind = "expanded"
             /\ events[k + 1].arg = events[k - 1].arg
    /\ (Running("replace_placeholder", "returned") /\ ~Contains(Top.userInput, PathToken))
          => Top.prompts = 0 /\ Top.input_copy = Top.userInput

\* a call that put two values in has returned, and the call with its result has
\* returned that result without a prompt
C19_Witness ==
    /\ Running("replace_placeholder", "returned")
    /\ Top.prompts = 0
    /\ \E k \in Expands :
          /\ k > 3
          /\ events[k - 1].kind = "expanded" /\ events[k - 1].status = 0
          /\ events[k - 2].kind = "prompt" /\ events[k - 3].kind = "prompt"
          /\ events[k - 1].arg # events[1].arg
          /\ k + 1 = Len(events)
          /\ events[k + 1].arg = events[k - 1].arg

(***************************************************************************)
(* C20.  For every command c, wrap_for_shell returns c itself under the    *)
(* CMD and Linux identifiers; under Powershell it returns                  *)
(* powershell -Command "c" : the prefix, the whole of c, then the closing  *)
(* quote, with nothing cut off.                                            *)
(***************************************************************************)
C20_WrapIsIdentityOrPowershellCommand ==
    Running("wrap_for_shell", "returned") =>
        /\ shell \in {"CMD", "Linux"} => Top.input_copy = Top.userInput
        /\ shell = "Powershell" =>
              /\ Len(Top.input_copy) = Len(PSPrefix) + Len(Top.userInput) + 1
              /\ SubSeq(Top.input_copy, 1, Len(PSPrefix)) = PSPrefix
              /\ SubSeq(Top.input_copy, Len(PSPrefix) + 1,
                        Len(PSPrefix) + Len(Top.userInput)) = Top.userInput
              /\ Top.input_copy[Len(Top.input_copy)] = "\""

\* under Powershell a command of the greatest length, with a quote in it, has
\* been wrapped
C20_Witness ==
    /\ Running("wrap_for_shell", "returned")
    /\ shell = "Powershell"
    /\ Len(Top.userInput) = MaxLen
    /\ \E p \in 1..MaxLen : Top.userInput[p] = "\""
    /\ Len(Top.input_copy) > Len(Top.userInput)

\* the invocations the place k of the history belongs to (one, or none)
Owners(k) == {s \in Invocations : k \in Within(s) /\ events[k].depth = events[s].depth}

\* the values typed at the prompts of the invocation entered at s before place k
TypedBefore(s, k) ==
    LET IsOwnPrompt(e) == e.kind = "prompt" /\ e.depth = events[s].depth
        typed == SelectSeq(SubSeq(events, s, k), IsOwnPrompt)
    IN  [n \in 1..Len(typed) |-> typed[n].arg]

\* the text with the values put in place of its tokens, one after the other
RECURSIVE Expanded(_, _)
Expanded(text, values) ==
    IF values = <<>> THEN text
    ELSE Expanded(FirstTokenReplaced(text, Head(values)), Tail(values))

\* what the cmd of the invocation entered at s has become at place k: the cmd
\* with the typed values in it, or the cmd itself after the token was typed
ExpandedCmd(s, k) ==
    LET typed == TypedBefore(s, k)
    IN  IF \E n \in 1..Len(typed) : typed[n] = PathToken THEN CmdOf(events[s].arg)
        ELSE Expanded(CmdOf(events[s].arg), typed)

\* the strings of the entry with the name that may be run as commands
CommandStrings(s, k) ==
    LET name == events[s].arg
    IN  IF CategoryOf(name) = INSTALL
        THEN {ProbeOf(name, "atPath"), ProbeOf(name, "atDrive"),
              ProbeOf(name, "addToPath"),
              InstallerOf(name, "choco").str, InstallerOf(name, "scoop").str}
                 \ {NULLSTR}
        ELSE {ExpandedCmd(s, k)}

(***************************************************************************)
(* C21.  Under the Powershell identifier every command line passed to      *)
(* system() is powershell -Command "x" for a string x of the entry being   *)
(* dispatched (a probe, addToPath, an installer command) or for its        *)
(* expanded cmd, and nothing is run through popen; every catalog lookup    *)
(* uses the bare category or subcommand of the name and every re-entry the *)
(* bare dependsOn string.                                                  *)
(***************************************************************************)
C21_PowershellWrapsEveryCommandAndNoName ==
    shell = "Powershell" =>
        \A k \in 1..Len(events) :
            /\ events[k].kind # "popen"
            /\ events[k].kind = "spawn" =>
                  \E s \in Owners(k) :
                      \E x \in CommandStrings(s, k) : events[k].arg = Wrapped(x)
            /\ events[k].kind = "lookup" =>
                  \E s \in Owners(k) :
                      events[k].arg \in {CategoryOf(events[s].arg),
                                         SubcommandOf(events[s].arg)}
            /\ (events[k].kind = "enter" /\ events[k].depth > 1) =>
                  \E s \in Invocations :
                      /\ s < k
                      /\ events[s].depth + 1 = events[k].depth
                      /\ \E n \in 1..Len(DeclaredDeps(events[s].arg)) :
                            DeclaredDeps(events[s].arg)[n] = events[k].arg

\* under Powershell the name was looked up by its bare parts and the wrap of
\* its expanded command was spawned
C21_Witness ==
    /\ shell = "Powershell"
    /\ Len(events) >= 2 /\ events[2].kind = "lookup" /\ events[2].arg = B
    /\ \E k \in 1..Len(events), s \in Invocations :
          /\ events[k].kind = "spawn"
          /\ s \in Owners(k)
          /\ TypedBefore(s, k) = <<<<"v">>>>
          /\ events[k].arg = PSPrefix \o <<"c", " ", "v", "\"">>

\* a generic entry with a string cmd that has no placeholder and with no
\* dependency (dependsOn is empty or absent)
PlainGeneric(name) ==
    /\ Resolves(name)
    /\ CategoryOf(name) # INSTALL
    /\ Field(VariantOf(name), <<"cmd">>).type = "string"
    /\ ~Contains(CmdOf(name), PathToken)
    /\ ~Contains(CmdOf(name), NameToken)
    /\ Field(VariantOf(name), <<"dependsOn">>).items = <<>>

(***************************************************************************)
(* C22.  Under the Linux and the CMD identifier, an invocation of a        *)
(* generic entry with no dependency and a cmd without placeholder issues   *)
(* no prompt and runs one command in all, the literal cmd string: nothing  *)
(* else is spawned, and the one spawn has happened when it returns.        *)
(***************************************************************************)
C22_PlainCommandIsSpawnedOnceAsWritten ==
    shell \in {"Linux", "CMD"} =>
        \A s \in Invocations :
            PlainGeneric(events[s].arg) =>
                /\ OwnPrompts(s) = {}
                /\ Cardinality(AllSpawns(s)) <= 1
                /\ \A k \in AllSpawns(s) :
                      /\ events[k].kind = "spawn"
                      /\ events[k].arg = CmdOf(events[s].arg)
                /\ Returned(s) => Cardinality(AllSpawns(s)) = 1

\* under Linux the command g of b.c, requested by name, was spawned and failed
C22_Witness ==
    /\ shell = "Linux"
    /\ argv1 = Dotted(B, <<"c">>)
    /\ Returned(1)
    /\ \E k \in AllSpawns(1) : events[k].arg = <<"g">> /\ events[k].status # 0

(***************************************************************************)
(* C23.  With the catalog loaded and parsed, the process ends with exit    *)
(* code 0 whatever name was requested and whatever failed on the way (a    *)
(* syntax error, a lookup miss, a misconfigured entry, a nonzero status of *)
(* a spawned command): it never ends in any other way.                     *)
(***************************************************************************)
C23_EndsWithExitCodeZero == proc # "running" => proc = "exit0"

(***************************************************************************)
(* History of the startup.                                                 *)
(***************************************************************************)
\* the errors of the startup: the argument count, the catalog not located, not
\* opened, empty, not buffered, not read in full, not parsed
StartupFailures ==
    {<<"usage">>, <<"nopath">>, <<"notopened">>, <<"emptyfile">>, <<"nomem">>,
     <<"shortread">>, <<"parse">>}

\* the places of the history at which a startup step failed
FailedSteps ==
    {k \in 1..Len(events) :
        events[k].kind = "error" /\ events[k].arg \in StartupFailures}

\* what main does after a step: a later step, a call or a command
LaterSteps ==
    {"locate", "read", "parse", "detect", "heading", "print", "enter", "lookup",
     "dispatch", "spawn", "popen"}

(***************************************************************************)
(* C24.  When the argument count is wrong or the catalog cannot be         *)
(* located, read (an empty file too) or parsed, the process has ended with *)
(* status 1 as soon as that first failure is logged: nothing but the       *)
(* closing error line follows it, no later startup step is made, the shell *)
(* is not detected and no command is resolved or spawned.                  *)
(***************************************************************************)
C24_StartupFailureExitsAtOnce ==
    \A k \in FailedSteps :
        /\ proc = "exit1"
        /\ shell = "NULL"
        /\ \A j \in (k + 1)..Len(events) : events[j].kind \notin LaterSteps

(***************************************************************************)
(* History of help.                                                        *)
(***************************************************************************)
\* the commands of the lines help has printed, in order
Printed ==
    LET IsLine(e) == e.kind = "print"
        lines == SelectSeq(events, IsLine)
    IN  [n \in 1..Len(lines) |-> lines[n].arg]

\* the pair has a string use field under the active shell
HasUse(pair) == Field(Field(pair.node, <<shell>>), <<"use">>).type = "string"

\* the pair has nothing under the key of the active shell
LacksShellKey(pair) == Field(pair.node, <<shell>>) = NULL

\* the commands of the pairs of the sequence that have a use field
UseLines(pairs) ==
    LET used == SelectSeq(pairs, HasUse)
    IN  [n \in 1..Len(used) |-> used[n].command]

\* the pairs of the catalog before the first one without the shell key
PairsBeforeStop ==
    LET pairs == HelpPairsFrom(1)
        stops == {n \in 1..Len(pairs) : LacksShellKey(pairs[n])}
    IN  IF stops = {} THEN pairs
        ELSE SubSeq(pairs, 1, (CHOOSE n \in stops : \A m \in stops : n <= m) - 1)

\* help was asked for and has returned
HelpDone == argv1 = HELP /\ \E k \in 1..Len(events) : events[k].kind = "heading"

NothingSpawned == \A k \in 1..Len(events) : events[k].kind \notin {"spawn", "popen"}

(***************************************************************************)
(* C25 as stated.  help prints one line for every category.subcommand pair *)
(* of the catalog that has a string use field under the active shell, in   *)
(* catalog traversal order, and spawns nothing, also when some other pair  *)
(* lacks the key of the active shell.                                      *)
(***************************************************************************)
C25_HelpListsEveryPairWithUse ==
    HelpDone => /\ Printed = UseLines(HelpPairsFrom(1))
                /\ NothingSpawned

(***************************************************************************)
(* C25 as the code has it.  help prints, in catalog traversal order, one   *)
(* line for every pair with a string use field under the active shell that *)
(* comes before the first pair without the key of the active shell; at     *)
(* that pair an error is logged and nothing more is printed.  Nothing is   *)
(* spawned.                                                                *)
(***************************************************************************)
C25_HelpListsPairsUpToTheFirstWithoutShell ==
    HelpDone =>
        /\ Printed = UseLines(PairsBeforeStop)
        /\ NothingSpawned
        /\ Len(PairsBeforeStop) < Len(HelpPairsFrom(1)) =>
              /\ events[Len(events)].kind = "error"
              /\ events[Len(events)].arg = <<"noshell">>

\* help has printed lines, has stopped at a pair without the shell key with
\* pairs that have a use field left over, and the process has ended
C25_Witness ==
    /\ HelpDone
    /\ proc = "exit0"
    /\ Len(Printed) > 0
    /\ Len(Printed) < Len(UseLines(HelpPairsFrom(1)))

\* check_availability, called at k, has returned 0 by way of its found-on-disk
\* branch: after the two probes a further command was run
FoundOnDiskAt(k) ==
    /\ SpawnAt(k, 1) /\ SpawnAt(k, 2) /\ events[k + 2].status = 0
    /\ \E n \in 4..6 :
          /\ ResultAt(k, n, 0)
          /\ events[k + n - 1].kind = "spawn"

(***************************************************************************)
(* C26.  Once check_availability has returned 0 through the found-on-disk  *)
(* branch, the search path of the tool's own process has been changed (it  *)
(* now has the tool's directory), so that what is spawned later in the run *)
(* inherits the changed search path.                                       *)
(***************************************************************************)
C26_FoundOnDiskChangesTheSearchPath ==
    \A k \in Calls : FoundOnDiskAt(k) => PATH # InitialPath

\* the spawns of the entry's own command by the invocation entered at s: for an
\* install entry the spawns after check_availability has returned, else all
OwnCommandSpawns(s) ==
    IF CategoryOf(events[s].arg) = INSTALL
    THEN {m \in OwnSpawns(s) :
             \E j \in Results : j \in Within(s) /\ j < m
                                /\ events[j].depth = events[s].depth}
    ELSE OwnSpawns(s)

(***************************************************************************)
(* C27.  Within one dispatch the entry's own command (the generic cmd or   *)
(* the selected installer command) is passed to system() at most once,     *)
(* whatever its status.  After a nonzero status an error is logged and the *)
(* invocation returns, as it does without the error after status 0; what   *)
(* the caller does next (its next dependency or its own dispatch) is the   *)
(* same in both cases.                                                     *)
(***************************************************************************)
C27_OwnCommandRunsOnceAndFailureIsOnlyLogged ==
    \A s \in Invocations :
        /\ Cardinality(OwnCommandSpawns(s)) <= 1
        /\ \A k \in OwnCommandSpawns(s) :
              LET ret == IF events[k].status # 0 THEN k + 2 ELSE k + 1
              IN  /\ events[k].status # 0 =>
                        /\ events[k + 1].kind = "error"
                        /\ events[k + 1].arg = <<"execfail">>
                  /\ events[ret].kind = "return"
                  /\ events[ret].depth = events[s].depth
                  /\ ret + 1 <= Len(events) =>
                        /\ events[ret + 1].kind \in {"enter", "dispatch"}
                        /\ events[ret + 1].depth \in
                              {events[s].depth, events[s].depth - 1}

\* the command of a dependency ended with a nonzero status; the error was
\* logged and the caller went on to spawn its own command, which ended with 0
C27_Witness ==
    \E s \in Invocations :
        /\ events[s].depth = 2
        /\ \E k \in OwnCommandSpawns(s) : events[k].status # 0
        /\ \E p \in Invocations :
              /\ events[p].depth = 1
              /\ Returned(p)
              /\ \E m \in OwnCommandSpawns(p) : m > Last(s) /\ events[m].status = 0


(***************************************************************************)
(* C28.  There is no visited-set or depth guard: an invocation whose name  *)
(* reaches itself through the string entries of dependsOn under the active *)
(* shell re-enters run_commands for its dependencies, never begins its     *)
(* dispatch and never returns; when the requested name is such a name the  *)
(* run never ends, neither with a return of run_commands nor with an       *)
(* error, and the recursion goes as deep as the stack allows.              *)
(***************************************************************************)
\* the names the invocations of the set re-enter run_commands with
DepsOf(names) ==
    UNION {{DeclaredDeps(n)[i] : i \in 1..Len(DeclaredDeps(n))} :
              n \in {m \in names : Resolves(m)}}

\* the names reached from the set through one or more dependsOn entries
RECURSIVE ReachedFrom(_)
ReachedFrom(names) ==
    LET more == names \cup DepsOf(names)
    IN  IF more = names THEN names ELSE ReachedFrom(more)

\* the name reaches itself through dependsOn entries under the active shell
OnCycle(name) == Resolves(name) /\ name \in ReachedFrom(DepsOf({name}))

C28_CyclicNameRecursesAndNeverDispatches ==
    /\ \A s \in Invocations :
          OnCycle(events[s].arg) =>
              /\ Dispatches(s) = {}
              /\ ~Returned(s)
              /\ \A k \in Within(s) :
                    events[k].depth = events[s].depth =>
                        events[k].kind \in {"enter", "lookup"}
    /\ OnCycle(argv1) =>
          /\ proc = "running"
          /\ stack # <<>>
          /\ \A d \in 1..Depth(stack) :
                \E s \in Invocations : events[s].depth = d /\ ~Returned(s)

\* the recursion has gone as deep as the bound of the model lets it, every
\* level but the first entered from an invocation of a name on the cycle
C28_Witness ==
    /\ OnCycle(argv1)
    /\ Depth(stack) = MaxDepth
    /\ \A d \in 1..MaxDepth :
          \E s \in Invocations :
              /\ events[s].depth = d
              /\ OnCycle(events[s].arg)
              /\ ~Returned(s)
    /\ \E k \in 1..Len(events) : events[k].kind = "spawn"


(***************************************************************************)
(* C29.  In every dispatch of an install entry other than all, an install  *)
(* command is spawned only after the path probe and the drive probe have   *)
(* both been run in that dispatch: never with no probe run.                *)
(***************************************************************************)
\* the probes the invocation entered at s ran before check_availability
\* returned at j
ProbesBefore(s, j) ==
    {p \in OwnSpawns(s) :
        /\ p < j
        /\ \E k \in Calls : k \in Within(s) /\ k < p
                            /\ events[k].depth = events[s].depth}

C29_InstallOnlyAfterBothProbes ==
    \A s \in Invocations :
        InstallEntryName(events[s].arg) =>
            \A m \in OwnCommandSpawns(s) :
                \E j \in Results :
                    /\ j \in Within(s) /\ j < m
                    /\ events[j].depth = events[s].depth
                    /\ Cardinality(ProbesBefore(s, j)) >= 2


(***************************************************************************)
(* C30.  Every string run_commands allocates in one invocation (the two    *)
(* slices of the name, the expanded command, the wrapped command) has been *)
(* freed when that invocation returns, on every path, the error returns    *)
(* for an unknown category, an unknown subcommand and a missing shell      *)
(* variant among them.                                                     *)
(***************************************************************************)
\* the blocks the invocation entered at s allocated and has not freed
Held(s) == {b \in heap : b.owner = s}

C30_NothingIsHeldAfterTheReturn ==
    \A s \in Invocations : Returned(s) => Held(s) = {}


(***************************************************************************)
(* C31.  For every name whose first '.' is neither its first nor its last  *)
(* character, the category looked up is exactly the characters before that *)
(* '.' and the subcommand looked up is exactly all the characters after    *)
(* it, later '.' characters included; the name is not refused as           *)
(* malformed.                                                              *)
(***************************************************************************)
\* the errors the invocation entered at s logged itself
OwnErrors(s) ==
    {events[k].arg : k \in {j \in Within(s) : /\ events[j].kind = "error"
                                              /\ events[j].depth = events[s].depth}}

\* the keys the invocation entered at s looked up, in order
OwnLookups(s) ==
    LET IsOwn(e) == e.kind = "lookup" /\ e.depth = events[s].depth
        own == SelectSeq(SubSeq(events, s, Last(s)), IsOwn)
    IN  [n \in 1..Len(own) |-> own[n].arg]

C31_SplitAtTheFirstDot ==
    \A s \in Invocations :
        LET name == events[s].arg
        IN  (WellFormed(name) /\ ~Pending(s)) =>
                /\ OwnErrors(s) \cap {<<"format">>, <<"syntax">>} = {}
                /\ Len(OwnLookups(s)) >= 1
                /\ OwnLookups(s)[1] = CategoryOf(name)
                /\ Field(root, CategoryOf(name)).type = "object" =>
                      /\ Len(OwnLookups(s)) = 2
                      /\ OwnLookups(s)[2] = SubcommandOf(name)
                /\ Resolves(name) => OwnErrors(s) \cap
                      {<<"nocategory">>, <<"nosubcommand">>, <<"noshell">>} = {}

\* names with a second '.' have been split: one resolved to its entry and was
\* dispatched, the other was looked up with the '.' within its subcommand
C31_Witness ==
    \E s \in Invocations :
        /\ \E p \in 1..Len(SubcommandOf(events[s].arg)) :
              SubcommandOf(events[s].arg)[p] = "."
        /\ WellFormed(events[s].arg)
        /\ Len(OwnLookups(s)) = 2
        /\ OwnLookups(s)[2] = SubcommandOf(events[s].arg)
        /\ \/ Dispatches(s) # {}
           \/ /\ events[s].arg = Dotted(B, <<"c", ".", "x">>)
              /\ <<"nosubcommand">> \in OwnErrors(s)


(***************************************************************************)
(* C32.  When no name reached from the requested name through dependsOn    *)
(* under the active shell is on a cycle, every spawned command ends and    *)
(* every value typed at a prompt is free of the token, the resolution of   *)
(* the requested name returns after finitely many spawns: at every point   *)
(* of the run it has returned to main, or it is running with its next step *)
(* to take (the run never ends before the return).                         *)
(***************************************************************************)
\* no name reached from the name, the name itself included, is on a cycle
Acyclic(name) == \A n \in ReachedFrom({name}) : ~OnCycle(n)

\* no value typed so far has the token in it
TokenFree ==
    \A k \in 1..Len(events) :
        events[k].kind = "prompt" => ~Contains(events[k].arg, PathToken)

\* the invocation main made has returned
ResolutionReturned == stack = <<>> /\ proc \in {"running", "exit0"} /\ Returned(1)

\* the run is at one of the bounds of the model: as many prompts, or as many
\* invocations one within the other, as the model follows
AtBound ==
    /\ stack # <<>>
    /\ \/ Top.pc = "expand" /\ Top.prompts >= MaxPrompts
       \/ Top.pc = "deps" /\ Depth(stack) >= MaxDepth

C32_AcyclicResolutionReturns ==
    (Acyclic(argv1) /\ TokenFree) =>
        (ResolutionReturned \/ (proc = "running" /\ ~AtBound))


(***************************************************************************)
(* C33.  Nothing is deduplicated across the dependency tree: in a run that *)
(* has returned, a name reachable from the requested name along k distinct *)
(* dependsOn paths has been entered exactly k times and, when it resolves, *)
(* has begun its dispatch exactly k times (a dependency two entries share  *)
(* is run twice).                                                          *)
(***************************************************************************)
\* the number of dependsOn paths under the active shell from one name to another
\* (the path of no step from a name to itself is one of them)
RECURSIVE PathsFrom(_, _)
RECURSIVE PathsThrough(_, _, _)
PathsThrough(deps, n, to) ==
    IF n > Len(deps) THEN 0
    ELSE PathsFrom(deps[n], to) + PathsThrough(deps, n + 1, to)

PathsFrom(from, to) ==
    (IF from = to THEN 1 ELSE 0)
    + (IF Resolves(from) THEN PathsThrough(DeclaredDeps(from), 1, to) ELSE 0)

\* the places at which run_commands was entered with the name
EntriesOf(name) == {s \in Invocations : events[s].arg = name}

\* the places at which the dispatch of the name began
DispatchesOf(name) ==
    {k \in 1..Len(events) : events[k].kind = "dispatch" /\ events[k].arg = name}

C33_EveryPathIsRunAgain ==
    (Returned(1) /\ Acyclic(argv1)) =>
        \A name \in ReachedFrom({argv1}) :
            /\ Cardinality(EntriesOf(name)) = PathsFrom(argv1, name)
            /\ Resolves(name) =>
                  Cardinality(DispatchesOf(name)) = PathsFrom(argv1, name)

\* a dependency two entries share has been spawned twice in a run that returned
C33_Witness ==
    /\ Returned(1)
    /\ Acyclic(argv1)
    /\ \E name \in ReachedFrom({argv1}) :
          /\ PathsFrom(argv1, name) = 2
          /\ Cardinality(DispatchesOf(name)) = 2
          /\ \A k \in DispatchesOf(name) :
                /\ k + 1 <= Len(events)
                /\ events[k + 1].kind = "spawn"
                /\ events[k + 1].arg = Wrapped(CmdOf(name))


(***************************************************************************)
(* C34.  A call of replace_placeholder that is not cancelled, on a string  *)
(* with n tokens, prompts exactly n times and then returns, whatever the   *)
(* values typed: also when a value has the token within it.                *)
(***************************************************************************)
\* the number of tokens in the text
Occurrences(text) ==
    Cardinality({p \in 1..(Len(text) - Len(PathToken) + 1) :
                    SubSeq(text, p, p + Len(PathToken) - 1) = PathToken})

\* the last place of the call of replace_placeholder made at k: the place at
\* which it returned, or the end of the history
ExpandEnd(k) ==
    LET ends == {j \in (k + 1)..Len(events) : events[j].kind = "expanded"}
    IN  IF ends = {} THEN Len(events) ELSE CHOOSE j \in ends : \A i \in ends : j <= i

\* the prompts of the call made at k
ExpandPrompts(k) == {p \in k..ExpandEnd(k) : events[p].kind = "prompt"}

\* the call made at k has returned and was not cancelled
Completed(k) ==
    events[ExpandEnd(k)].kind = "expanded" /\ events[ExpandEnd(k)].status = 0

RECURSIVE TokensTyped(_)
TokensTyped(places) ==
    IF places = {} THEN 0
    ELSE LET p == CHOOSE q \in places : TRUE
         IN  Occurrences(events[p].arg) + TokensTyped(places \ {p})

Cancelled(s) == \E k \in OwnPrompts(s) : events[k].arg = PathToken

C35_CancelledExpansionStillSpawns ==
    \A s \in Invocations :
        Cancelled(s) =>
            /\ Cardinality(OwnSpawns(s)) <= 1
            /\ \A m \in OwnSpawns(s) :
                  /\ events[m].arg = Wrapped(CmdOf(events[s].arg))
                  /\ Contains(events[m].arg, PathToken)
                  /\ \A k \in OwnPrompts(s) : k < m
            /\ Returned(s) => Cardinality(OwnSpawns(s)) = 1
            \* between the cancelling prompt and the spawn there is no step at
            \* which the run could end
            /\ (OwnSpawns(s) = {} /\ proc = "running") =>
                  /\ stack # <<>>
                  /\ Top.pc = "run"
                  /\ Top.start = s

\* an invocation that was cancelled at its first prompt has spawned its
\* unexpanded command, which failed, and has returned
C35_Witness ==
    \E s \in Invocations :
        /\ Cancelled(s)
        /\ Cardinality(OwnPrompts(s)) = 1
        /\ Returned(s)
        /\ \E m \in OwnSpawns(s) :
              /\ events[m].arg = Wrapped(CmdOf(events[s].arg))
              /\ events[m].status # 0


(***************************************************************************)
(* C36.  On the POSIX found-on-disk path, whatever line the drive probe    *)
(* prints (a line that is a newline only, a line whose only '/' is its     *)
(* first character), the directory is taken from it by reads and writes    *)
(* within the path buffer: path[strlen(path)-1] is never evaluated on an   *)
(* empty string.                                                           *)
(***************************************************************************)
C36_DirectoryIsTakenWithinTheBuffer ==
    \A k \in 1..Len(events) :
        events[k].kind = "fgets" =>
            /\ DirectoryBeforeSlashTest(events[k].arg) # <<>>
            /\ k + 1 <= Len(events) => events[k + 1].kind # "outofbounds"


(***************************************************************************)
(* C37.  Every invocation of run_commands that has returned has begun its  *)
(* dispatch or has logged an error: none returns having done neither, also *)
(* when the category, the subcommand or the shell variant is there but is  *)
(* no mapping.                                                             *)
(***************************************************************************)
C37_ReturnsAfterADispatchOrAnError ==
    \A s \in Invocations :
        Returned(s) => (Dispatches(s) # {} \/ OwnErrors(s) # {})


(***************************************************************************)
(* C38.  Under CMD and Powershell, when check_availability returns 1 for   *)
(* an install entry whose selected installer entry (choco when elevated,   *)
(* scoop otherwise) is absent or no string, an error is logged and nothing *)
(* is spawned in the rest of the invocation: the other installer entry is  *)
(* not used in its place.                                                  *)
(***************************************************************************)
\* the installer entry the privilege level selects is absent or no string
NoSelectedInstaller(name) ==
    /\ InstallEntryName(name)
    /\ Field(VariantOf(name), <<"cmd">>).type = "object"
    /\ InstallerOf(name, SelectedKey).type # "string"

C38_NoFallbackToTheOtherInstaller ==
    shell \in {"CMD", "Powershell"} =>
        \A j \in Results :
            (NoSelectedInstaller(events[j].arg) /\ events[j].status = 1) =>
                /\ SpawnsAfter(j) = {}
                /\ j + 2 <= Len(events) =>
                      /\ events[j + 1].kind = "is_admin"
                      /\ events[j + 2] = [kind |-> "error", arg |-> <<"nocmd">>,
                                          status |-> 0, depth |-> events[j].depth]
                      /\ j + 3 <= Len(events) => events[j + 3].kind = "return"

\* the invocation has returned in one of the two cases: elevated with no choco
\* entry, or not elevated with a scoop entry that is no string, the other entry
\* being a string
C38_Witness ==
    /\ shell \in {"CMD", "Powershell"}
    /\ \E j \in Results :
          /\ NoSelectedInstaller(events[j].arg) /\ events[j].status = 1
          /\ InstallerOf(events[j].arg, OtherKey).type = "string"
          /\ Returned(1)
          /\ \/ admin /\ InstallerOf(events[j].arg, SelectedKey) = NULL
             \/ ~admin /\ InstallerOf(events[j].arg, SelectedKey).type = "number"


(***************************************************************************)
(* C39.  The dependencies come before every test of the parent's own cmd   *)
(* and probe fields: for an entry whose shell variant is there but whose   *)
(* cmd, atPath, atDrive or addToPath is absent or invalid, run_commands    *)
(* has been entered with every declared dependency, and each of these      *)
(* invocations is over with all its spawns, before the fields of the       *)
(* parent are read; the error, the fault or the call that comes of the bad *)
(* field is after that.                                                    *)
(***************************************************************************)
\* the entry resolves and its cmd or one of its probe fields is absent or invalid
Misconfigured(name) == BadCmd(name) \/ BadProbes(name)

\* the places at which the invocation entered at s re-entered run_commands
Children(s) ==
    {c \in Within(s) : events[c].kind = "enter" /\ events[c].depth = events[s].depth + 1}

C39_DependenciesBeforeTheParentsFields ==
    \A s \in Invocations :
        Misconfigured(events[s].arg) =>
            /\ \A d \in Dispatches(s) :
                  /\ Entered(s) = DeclaredDeps(events[s].arg)
                  /\ \A c \in Children(s) : Returned(c) /\ Last(c) < d
                  /\ \A k \in Within(s) :
                        (/\ events[k].depth = events[s].depth
                         /\ events[k].kind \in {"error", "call", "result", "spawn", "is_admin"})
                        => d < k
            /\ (Returned(s) \/ proc = "crashed") =>
                  \/ Dispatches(s) # {}
                  \/ \E c \in Children(s) : ~Returned(c)

\* an install entry without atDrive: its dependency was spawned and returned,
\* then the error for the missing field was logged and the installer was run
C39_Witness ==
    \E s \in Invocations :
        /\ BadProbes(events[s].arg)
        /\ Returned(s)
        /\ \E c \in Children(s) :
              /\ Returned(c)
              /\ \E m \in OwnSpawns(c) : m < Last(c)
              /\ \E k \in Within(s) :
                    /\ k > Last(c)
                    /\ events[k].kind = "error"
                    /\ events[k].arg = <<"tooljson">>
                    /\ \E m \in OwnSpawns(s) : m > k

====
